---- MODULE Spec2Model ----
(***************************************************************************)
(* Standards baseline engine of RoboMo 2.0 (standards_baseline/switch.py,  *)
(* engine.py, device_state.py, config.py): the per-device history buffer,  *)
(* the DeviceState store, the last-result cache, the smoke hysteresis      *)
(* state machine and the two entry points compute_from_payload (streaming) *)
(* and compute_request_payload (batch).                                    *)
(*                                                                         *)
(* Numbers.  Python floats are modelled by exact integers and rationals:   *)
(*   - timestamps are whole minutes;                                       *)
(*   - PM2.5 values are whole ug/m3, NowCast values are rationals <<n,d>>; *)
(*   - CO2 is whole ppm; ACH is held in thousandths (1.0 ach = 1000);      *)
(*   - g_person is held in units of 1e-6 m3/s.                             *)
(***************************************************************************)
EXTENDS Integers, Sequences, FiniteSets, TLC

\* ------------------------------------------------------------------------
\* Absent values (Python None).  One per type, so that TLC never compares
\* values of different types.
None == 0 - 1                 \* absent number
NoId == "None"                \* absent device_id
NoneQ == <<0, 0>>             \* absent rational
NoTime == 0 - 1               \* absent datetime

\* a timestamp string that no datetime parser accepts
Unparsable == 0 - 2

\* ------------------------------------------------------------------------
\* Program constants (standards_baseline/config.py, switch.py)
HISTORY_MAXLEN == 288
SMOKE_TRIGGER == 35
SMOKE_MIN_RISE == 10
SMOKE_CLEAR_DELTA == 5
SMOKE_CONSECUTIVE == 2
DEFAULT_DEVICE_COUT_PPM == 420
DEFAULT_DEVICE_ACH == 1000
DEFAULT_VOLUME_M3 == 250
DEFAULT_G_PERSON == 4
TEN_MINUTES == 10
NOWCAST_WINDOW == 12
ACH_MIN_ESTIMATE == 100
MIN_DECAY_POINTS == 3

\* ------------------------------------------------------------------------
\* Bounds of the model
MaxBatch == 2                 \* longest batch of the smoke workload
MaxStream == 2                \* streaming submissions per device between batches
OverLong == 1                 \* long batches carry up to HISTORY_MAXLEN + OverLong readings

\* ------------------------------------------------------------------------
\* Small arithmetic helpers
Min(S) == CHOOSE x \in S : \A y \in S : x <= y
Max(S) == CHOOSE x \in S : \A y \in S : x >= y
Abs(x) == IF x < 0 THEN 0 - x ELSE x

RECURSIVE Gcd(_, _)
Gcd(a, b) == IF b = 0 THEN a ELSE Gcd(b, a % b)

RECURSIVE Pow(_, _)
Pow(b, e) == IF e = 0 THEN 1 ELSE b * Pow(b, e - 1)

\* Rationals <<n, d>> with d > 0, kept in lowest terms.
QNorm(n, d) == LET g == Gcd(Abs(n), d) IN <<n \div g, d \div g>>
QInt(n) == <<n, 1>>
QSub(a, b) == QNorm(a[1] * b[2] - b[1] * a[2], a[2] * b[2])
QGeq(a, b) == a[1] * b[2] >= b[1] * a[2]
QLeq(a, b) == a[1] * b[2] <= b[1] * a[2]
QGt(a, b) == a[1] * b[2] > b[1] * a[2]
QAdd(a, b) == QNorm(a[1] * b[2] + b[1] * a[2], a[2] * b[2])
QAbs(a) == <<Abs(a[1]), a[2]>>
QMax(S) == CHOOSE x \in S : \A y \in S : QGeq(x, y)
\* the product, with the common factors taken out before multiplying
QMul(a, b) ==
    LET g1 == Gcd(Abs(a[1]), b[2])
        g2 == Gcd(Abs(b[1]), a[2])
    IN <<(a[1] \div g1) * (b[1] \div g2), (a[2] \div g2) * (b[2] \div g1)>>

\* clamp that lets every value through
clamp_none(value, low, high) == value

\* engine.py clamp(value, low, high) on rationals
clamp(value, low, high) ==
    LET m == IF QLeq(value, high) THEN value ELSE high
    IN IF QGeq(low, m) THEN low ELSE m

\* Python truthiness of an optional number: absent and zero are falsy.
Truthy(x) == x # None /\ x # 0

\* `a or b`
Or(a, b) == IF Truthy(a) THEN a ELSE b

\* The last n elements of a sequence (Python s[-n:]).
LastN(s, n) == IF Len(s) <= n THEN s ELSE SubSeq(s, Len(s) - n + 1, Len(s))

Reverse(s) == [i \in 1..Len(s) |-> s[Len(s) + 1 - i]]

\* ------------------------------------------------------------------------
\* Readings (schemas.py BaselineReading), history entries and samples
Fields == {"timestamp", "device_id", "pm25", "co2"}

NoneOf(f) == IF f = "device_id" THEN NoId ELSE None

Reading(t, id, pm, c) == [timestamp |-> t, device_id |-> id, pm25 |-> pm, co2 |-> c]

\* datetime.isoformat() and its parse by the BaselineReading validator
isoformat(t) == <<"iso", t>>
fromisoformat(s) == s[2]

\* reading.model_dump(by_alias=True, exclude_none=True) with the timestamp
\* replaced by its ISO string: only the present fields are kept.
history_entry(reading) ==
    [f \in {g \in Fields : reading[g] # NoneOf(g)} |->
        IF f = "timestamp" THEN isoformat(reading.timestamp) ELSE reading[f]]

\* BaselineReading(**entry): missing fields take their default None.
reading_from_entry(entry) ==
    [f \in Fields |->
        IF f \in DOMAIN entry
        THEN (IF f = "timestamp" THEN fromisoformat(entry[f]) ELSE entry[f])
        ELSE NoneOf(f)]

\* `x or "unknown"` on a device id
device_or_unknown(id) == IF id = NoId \/ id = "" THEN "unknown" ELSE id

\* Sample.from_mapping(reading.model_dump(by_alias=True))
Sample_from_mapping(reading) ==
    [timestamp |-> reading.timestamp,
     device_id |-> device_or_unknown(reading.device_id),
     pm25 |-> reading.pm25,
     co2 |-> reading.co2]

\* _parse_timestamp raises ValueError on a value it cannot parse
parses(timestamp) == timestamp # Unparsable

\* BaselineReading(**payload): pydantic rejects a timestamp that is no datetime
BaselineReading_validates(reading) == parses(reading.timestamp)

\* BaselineRequest(**payload): one reading that does not validate fails the
\* validation of the whole request
BaselineRequest_validates(request) ==
    \A i \in 1..Len(request.readings) : BaselineReading_validates(request.readings[i])

\* _samples_from_request: a reading whose Sample.from_mapping raises
\* ValueError is skipped
_samples_from_request(readings) ==
    LET kept == SelectSeq(readings, LAMBDA r : parses(r.timestamp))
    IN [i \in 1..Len(kept) |-> Sample_from_mapping(kept[i])]

\* sorted(xs, key=timestamp): Python's sort is stable.
RECURSIVE SortBuckets(_, _)
SortBuckets(s, keys) ==
    IF keys = {} THEN <<>>
    ELSE LET k == Min(keys)
         IN SelectSeq(s, LAMBDA x : x.timestamp = k) \o SortBuckets(s, keys \ {k})

sorted_by_timestamp(s) == SortBuckets(s, {s[i].timestamp : i \in 1..Len(s)})

\* ------------------------------------------------------------------------
\* NowCast (engine.py)

\* weight = max(0.5, 1.0 - (c_max - c_min) / max(c_max, 1e-6))
nowcast_weight(c_max, c_min) ==
    LET raw == IF c_max > 0 THEN QNorm(c_min, c_max)
               ELSE IF c_max = c_min THEN QInt(1)
               ELSE <<0 - 1, 1>>
    IN IF QGeq(raw, <<1, 2>>) THEN raw ELSE <<1, 2>>

RECURSIVE WeightedSum(_, _, _, _)
\* sum over i >= k of p^(i-1) * q^(n-i) * vals[i]   (vals newest first)
WeightedSum(vals, p, q, k) ==
    IF k > Len(vals) THEN 0
    ELSE Pow(p, k - 1) * Pow(q, Len(vals) - k) * vals[k]
         + WeightedSum(vals, p, q, k + 1)

\* compute_nowcast_pm25 that divides by the weights of every present value,
\* not only of the last 12
compute_nowcast_pm25_untrimmed(values) ==
    LET present == SelectSeq(values, LAMBDA v : v # None)
    IN IF present = <<>> THEN NoneQ
       ELSE IF Len(present) = 1 THEN QInt(present[1])
       ELSE LET tail == LastN(present, NOWCAST_WINDOW)
                vs == {tail[i] : i \in 1..Len(tail)}
                w == nowcast_weight(Max(vs), Min(vs))
                rev == Reverse(tail)
                ones == [i \in 1..Len(present) |-> 1]
            IN QNorm(WeightedSum(rev, w[1], w[2], 1), WeightedSum(ones, w[1], w[2], 1))

compute_nowcast_pm25(values) ==
    LET present == SelectSeq(values, LAMBDA v : v # None)
    IN IF present = <<>> THEN NoneQ
       ELSE IF Len(present) = 1 THEN QInt(present[1])
       ELSE LET tail == LastN(present, NOWCAST_WINDOW)
                vs == {tail[i] : i \in 1..Len(tail)}
                w == nowcast_weight(Max(vs), Min(vs))
                rev == Reverse(tail)
                ones == [i \in 1..Len(tail) |-> 1]
            IN QNorm(WeightedSum(rev, w[1], w[2], 1), WeightedSum(ones, w[1], w[2], 1))

RECURSIVE NowcastFold(_, _, _)
NowcastFold(pts, i, tail) ==
    IF i > Len(pts) THEN <<>>
    ELSE LET t1 == IF pts[i].value # None THEN Append(tail, pts[i].value) ELSE tail
             t2 == LastN(t1, NOWCAST_WINDOW)
             nc == compute_nowcast_pm25(t2)
         IN (IF nc # NoneQ THEN <<[timestamp |-> pts[i].timestamp, value |-> nc]>>
             ELSE <<>>)
            \o NowcastFold(pts, i + 1, t2)

compute_nowcast_series(pm25_values) ==
    NowcastFold(sorted_by_timestamp(pm25_values), 1, <<>>)

\* ------------------------------------------------------------------------
\* PM2.5 AQI (engine.py pm25_aqi, config.py DEFAULT_PM25_BREAKPOINTS)

\* the rows (c_lo, c_hi, i_lo, i_hi), the concentrations in tenths of ug/m3
PM25_BREAKPOINTS ==
    <<<<0, 120, 0, 50>>, <<121, 354, 51, 100>>, <<355, 554, 101, 150>>,
      <<555, 1504, 151, 200>>, <<1505, 2504, 201, 300>>, <<2505, 5004, 301, 500>>>>

Tenths(n) == QNorm(n, 10)

\* aqi_in_row that reports the lower index of the row
aqi_in_row_floor(c, row) == QInt(row[3])

\* ratio * (c - c_lo) + i_lo with ratio = (i_hi - i_lo) / (c_hi - c_lo)
aqi_in_row(c, row) ==
    QAdd(QMul(QNorm((row[4] - row[3]) * 10, row[2] - row[1]), QSub(c, Tenths(row[1]))),
         QInt(row[3]))

\* the loop over the rows from row k on, and the return after it
RECURSIVE aqi_from_row(_, _)
aqi_from_row(c, k) ==
    IF k > Len(PM25_BREAKPOINTS) THEN QInt(PM25_BREAKPOINTS[Len(PM25_BREAKPOINTS)][4])
    ELSE IF QLeq(Tenths(PM25_BREAKPOINTS[k][1]), c) /\ QLeq(c, Tenths(PM25_BREAKPOINTS[k][2]))
         THEN aqi_in_row(c, PM25_BREAKPOINTS[k])
         ELSE aqi_from_row(c, k + 1)

pm25_aqi(nowcast) == IF nowcast = NoneQ THEN NoneQ ELSE aqi_from_row(nowcast, 1)

\* ------------------------------------------------------------------------
\* IAQ score (engine.py co2_penalty, tvoc_penalty, comfort_penalty, build_iaq)

Hundredths(n) == QNorm(n, 100)

\* math.exp raises OverflowError above 709.78: -0.018 * (co2_ppm - 800)
\* exceeds it for every co2_ppm at or below this value
CO2_EXP_OVERFLOW == 0 - 38633

co2_penalty_raises(co2_ppm) == co2_ppm # None /\ co2_ppm <= CO2_EXP_OVERFLOW

\* 100 / (1 + exp(-0.018 * (co2_ppm - 800))), tabulated to the hundredth
logistic_penalty(co2_ppm) ==
    CASE co2_ppm = 400 -> Hundredths(7)
      [] co2_ppm = 800 -> Hundredths(5000)
      [] co2_ppm = 900 -> Hundredths(8581)
      [] co2_ppm = 2000 -> Hundredths(10000)

co2_penalty(co2_ppm) ==
    IF co2_ppm = None THEN QInt(0)
    ELSE clamp(logistic_penalty(co2_ppm), QInt(0), QInt(100))

VOC_BREAKPOINTS == <<220, 660, 2200>>
VOC_RISK_CAP == 65

\* fraction ** 2 with fraction = (voc - low) / max(high - low, 1e-6)
voc_fraction_squared(voc, low, high) ==
    QMul(QNorm(voc - low, high - low), QNorm(voc - low, high - low))

tvoc_penalty(voc) ==
    IF voc = None THEN QInt(0)
    ELSE IF voc <= VOC_BREAKPOINTS[1] THEN QInt(0)
    ELSE IF voc <= VOC_BREAKPOINTS[2]
    THEN QMul(QNorm(VOC_RISK_CAP, 2),
              voc_fraction_squared(voc, VOC_BREAKPOINTS[1], VOC_BREAKPOINTS[2]))
    ELSE IF voc <= VOC_BREAKPOINTS[3]
    THEN QAdd(QNorm(VOC_RISK_CAP, 2),
              QMul(QNorm(VOC_RISK_CAP, 2),
                   voc_fraction_squared(voc, VOC_BREAKPOINTS[2], VOC_BREAKPOINTS[3])))
    ELSE QInt(VOC_RISK_CAP)

COMFORT_TEMP_RANGE == <<20, 25>>
COMFORT_RH_RANGE == <<30, 60>>

\* delta ** 1.5, tabulated to the hundredth
pow15(delta) ==
    CASE delta = 20 -> Hundredths(8944)
      [] delta = 30 -> Hundredths(16432)

\* the distance of a value from a band, 0 inside it or when it is absent
outside_band(value, band) ==
    IF value = None THEN 0
    ELSE IF value < band[1] THEN band[1] - value
    ELSE IF value > band[2] THEN value - band[2]
    ELSE 0

comfort_penalty(temp_c, rh) ==
    clamp(QAdd(QInt(outside_band(temp_c, COMFORT_TEMP_RANGE)
                        * outside_band(temp_c, COMFORT_TEMP_RANGE) * 2),
               IF outside_band(rh, COMFORT_RH_RANGE) = 0 THEN QInt(0)
               ELSE pow15(outside_band(rh, COMFORT_RH_RANGE))),
          QInt(0), QInt(100))

\* IAQWeights
IAQWeights(co2, pm25, voc, comfort) ==
    [co2 |-> co2, pm25 |-> pm25, voc |-> voc, comfort |-> comfort]
IAQ_WEIGHTS == IAQWeights(<<1, 5>>, <<2, 5>>, <<1, 5>>, <<1, 5>>)

\* min(100.0, (aqi_pm25 or 0.0) / 5.0) if aqi_pm25 is not None else 0.0
risk_pm25_of(aqi_pm25) ==
    IF aqi_pm25 = NoneQ THEN QInt(0)
    ELSE IF QLeq(QMul(aqi_pm25, <<1, 5>>), QInt(100)) THEN QMul(aqi_pm25, <<1, 5>>)
    ELSE QInt(100)

weighted_sum(weights, pm25, co2, tvoc, comfort) ==
    QAdd(QAdd(QMul(pm25, weights.pm25), QMul(co2, weights.co2)),
         QAdd(QMul(tvoc, weights.voc), QMul(comfort, weights.comfort)))

\* dominant_risk that looks at the pollutants only
dominant_risk_pollutants(co2, pm25, tvoc, comfort) == QMax({co2, pm25, tvoc})

\* max(risk_co2, risk_pm25, risk_tvoc, risk_comfort)
dominant_risk(co2, pm25, tvoc, comfort) == QMax({co2, pm25, tvoc, comfort})

\* the returned dictionary (engine.py 243-262), given the component risks
iaq_of_risks(weights, aqi_pm25, pm25, co2, tvoc, comfort, weighted_risk) ==
    [raised |-> "",
     iaq_score |-> clamp(QSub(QInt(100), weighted_risk), QInt(0), QInt(100)),
     aqi_pm25 |-> aqi_pm25,
     risk_pm25 |-> pm25,
     risk_co2 |-> co2,
     risk_tvoc |-> tvoc,
     risk_comfort |-> comfort,
     risk_weighted |-> weighted_risk,
     dominant_risk |-> dominant_risk(co2, pm25, tvoc, comfort)]

iaq_of_components(weights, aqi_pm25, pm25, co2, tvoc, comfort) ==
    iaq_of_risks(weights, aqi_pm25, pm25, co2, tvoc, comfort,
                 clamp(weighted_sum(weights, pm25, co2, tvoc, comfort), QInt(0), QInt(100)))

\* build_iaq with the module's weights passed in; the OverflowError of
\* math.exp leaves it at engine.py 233
build_iaq(weights, nowcast_pm25, co2_ppm, voc, temp_c, rh) ==
    IF co2_penalty_raises(co2_ppm) THEN [raised |-> "OverflowError"]
    ELSE iaq_of_components(weights, pm25_aqi(nowcast_pm25),
                           risk_pm25_of(pm25_aqi(nowcast_pm25)),
                           co2_penalty(co2_ppm), tvoc_penalty(voc),
                           comfort_penalty(temp_c, rh))

\* ------------------------------------------------------------------------
\* Smoke detector (engine.py assess_smoke, device_state.py SmokeState)
SmokeState(a, c, r) == [active |-> a, consecutive_below |-> c, last_reason |-> r]

NewSmokeState == SmokeState(FALSE, 0, "normal")

clear_threshold == SMOKE_TRIGGER - SMOKE_CLEAR_DELTA

\* a look-back that always settles on the earliest point
LookBack_earliest(series, i, limit) == series[1].value

\* the value of the most recent point at or before latest_ts - 10 min,
\* else the value of the earliest point
RECURSIVE LookBack(_, _, _)
LookBack(series, i, limit) ==
    IF i = 0 THEN series[1].value
    ELSE IF series[i].timestamp <= limit THEN series[i].value
    ELSE LookBack(series, i - 1, limit)

smoke_previous(series) ==
    LookBack(series, Len(series), series[Len(series)].timestamp - TEN_MINUTES)

\* trigger_met without the test on the rise
trigger_met_no_rise(latest_val, rise) == QGeq(latest_val, QInt(SMOKE_TRIGGER))

trigger_met(latest_val, rise) ==
    QGeq(latest_val, QInt(SMOKE_TRIGGER)) /\ QGeq(rise, QInt(SMOKE_MIN_RISE))

\* smoke_transition with the consecutive-evaluation count ignored: the first
\* evaluation at or below the clear threshold clears
smoke_transition_no_count(state, latest_val, rise) ==
    IF QGeq(latest_val, QInt(SMOKE_TRIGGER)) /\ QGeq(rise, QInt(SMOKE_MIN_RISE))
    THEN SmokeState(TRUE, 0, "rapid_rise")
    ELSE IF state.active
    THEN (IF QLeq(latest_val, QInt(clear_threshold))
          THEN SmokeState(FALSE, 0, "clearing")
          ELSE SmokeState(TRUE, 0, "hysteresis_hold"))
    ELSE SmokeState(FALSE, 0, "below_threshold")

\* smoke_transition that keeps the count it reached when it clears
smoke_transition_keeps_count(state, latest_val, rise) ==
    IF trigger_met(latest_val, rise)
    THEN SmokeState(TRUE, 0, "rapid_rise")
    ELSE IF state.active
    THEN (IF QLeq(latest_val, QInt(clear_threshold))
          THEN (IF state.consecutive_below + 1 >= SMOKE_CONSECUTIVE
                THEN SmokeState(FALSE, state.consecutive_below + 1, "clearing")
                ELSE SmokeState(TRUE, state.consecutive_below + 1, "hysteresis_hold"))
          ELSE SmokeState(TRUE, 0, "hysteresis_hold"))
    ELSE SmokeState(FALSE, 0, "below_threshold")

smoke_transition(state, latest_val, rise) ==
    IF trigger_met(latest_val, rise)
    THEN SmokeState(TRUE, 0, "rapid_rise")
    ELSE IF state.active
    THEN (IF QLeq(latest_val, QInt(clear_threshold))
          THEN (IF state.consecutive_below + 1 >= SMOKE_CONSECUTIVE
                THEN SmokeState(FALSE, 0, "clearing")
                ELSE SmokeState(TRUE, state.consecutive_below + 1, "hysteresis_hold"))
          ELSE SmokeState(TRUE, 0, "hysteresis_hold"))
    ELSE SmokeState(FALSE, 0, "below_threshold")

raw_probability(latest_val) ==
    clamp(QNorm(latest_val[1] - clear_threshold * latest_val[2],
                latest_val[2] * (SMOKE_TRIGGER - clear_threshold)),
          QInt(0), QInt(1))

\* assess_smoke that raises the alarm when any point of the series, taken
\* as the latest of the points up to it, meets the trigger
assess_smoke_any_point(nowcast_series, state) ==
    IF nowcast_series = <<>>
    THEN [info |-> [smoke_present |-> FALSE, reason |-> "insufficient",
                    last_nowcast_pm25 |-> NoneQ, raw_probability |-> QInt(0)],
          state |-> state]
    ELSE LET series == sorted_by_timestamp(nowcast_series)
             latest_val == series[Len(series)].value
             updated ==
                 IF \E k \in 1..Len(series) :
                        trigger_met(series[k].value,
                                    QSub(series[k].value,
                                         smoke_previous(SubSeq(series, 1, k))))
                 THEN SmokeState(TRUE, 0, "rapid_rise")
                 ELSE smoke_transition(state, latest_val,
                                       QSub(latest_val, smoke_previous(series)))
         IN [info |-> [smoke_present |-> updated.active, reason |-> updated.last_reason,
                       last_nowcast_pm25 |-> latest_val,
                       raw_probability |-> raw_probability(latest_val)],
             state |-> updated]

\* assess_smoke that starts from a fresh SmokeState when the series is empty
assess_smoke_forgets(nowcast_series, state) ==
    IF nowcast_series = <<>>
    THEN [info |-> [smoke_present |-> FALSE, reason |-> "insufficient",
                    last_nowcast_pm25 |-> NoneQ, raw_probability |-> QInt(0)],
          state |-> NewSmokeState]
    ELSE LET series == sorted_by_timestamp(nowcast_series)
             latest_val == series[Len(series)].value
             updated == smoke_transition(state, latest_val,
                                         QSub(latest_val, smoke_previous(series)))
         IN [info |-> [smoke_present |-> updated.active, reason |-> updated.last_reason,
                       last_nowcast_pm25 |-> latest_val,
                       raw_probability |-> raw_probability(latest_val)],
             state |-> updated]

assess_smoke(nowcast_series, state) ==
    IF nowcast_series = <<>>
    THEN [info |-> [smoke_present |-> FALSE, reason |-> "insufficient",
                    last_nowcast_pm25 |-> NoneQ, raw_probability |-> QInt(0)],
          state |-> state]
    ELSE LET series == sorted_by_timestamp(nowcast_series)
             latest_val == series[Len(series)].value
             rise == QSub(latest_val, smoke_previous(series))
             updated == smoke_transition(state, latest_val, rise)
         IN [info |-> [smoke_present |-> updated.active, reason |-> updated.last_reason,
                       last_nowcast_pm25 |-> latest_val,
                       raw_probability |-> raw_probability(latest_val)],
             state |-> updated]

\* ------------------------------------------------------------------------
\* Air-exchange-rate estimate (engine.py estimate_ach, _regression_slope)

RECURSIVE SumSeq(_, _)
SumSeq(s, i) == IF i > Len(s) THEN 0 ELSE s[i] + SumSeq(s, i + 1)

\* math.log, in hundredths, of an excess concentration held in millionths
\* of a ppm (so that the floor 1e-6 ppm is the integer 1)
math_log(v) ==
    CASE v = 1 -> 0 - 1382
      [] v = 256000000 -> 555
      [] v = 276000000 -> 562
      [] v = 512000000 -> 624
      [] v = 532000000 -> 628
      [] v = 1024000000 -> 693
      [] v = 1044000000 -> 695

\* max(v - cout_ppm, 1e-6), in millionths of a ppm
excess_co2(v, cout_ppm) == IF v - cout_ppm > 0 THEN (v - cout_ppm) * 1000000 ELSE 1

\* least-squares slope as the pair <<numerator, denominator>>, or <<0, 0>>
\* when it is undefined (n < 2 or zero variance in x)
_regression_slope(x, y) ==
    LET n == Len(x)
        sum_x == SumSeq(x, 1)
        sum_y == SumSeq(y, 1)
        sum_xy == SumSeq([i \in 1..n |-> x[i] * y[i]], 1)
        sum_x2 == SumSeq([i \in 1..n |-> x[i] * x[i]], 1)
        denom == n * sum_x2 - sum_x * sum_x
    IN IF n < 2 \/ denom = 0 THEN <<0, 0>>
       ELSE <<n * sum_xy - sum_x * sum_y, denom>>

\* The sign of n * sum_xy - sum_x * sum_y as IEEE doubles compute it when
\* the exact difference is zero (all logs equal): the two products are
\* rounded separately and may differ in the last place.  Tabulated for the
\* windows of the workloads; with all x equal both products are exact.
slope_residue(x, y) ==
    IF x = <<0, 0, 25>> /\ y = <<624, 624, 624>> THEN 0 - 1 ELSE 0

\* x is in minutes and y in hundredths, so -slope * 3600 per second is
\* -num * 60 / (den * 100); in thousandths of an ACH: -num * 600 / den.
\* A slope that is a negative rounding residue passes the test slope >= 0
\* and gives an estimate of about 1e-15, which is 0 thousandths.
estimate_ach(times, co2_ppm, cout_ppm) ==
    IF Len(times) < MIN_DECAY_POINTS THEN None
    ELSE LET values == [i \in 1..Len(times) |-> times[i] - times[1]]
             co2 == [i \in 1..Len(co2_ppm) |-> excess_co2(co2_ppm[i], cout_ppm)]
         IN IF \E i \in 1..Len(co2) : co2[i] <= 0 THEN None
            ELSE LET logs == [i \in 1..Len(co2) |-> math_log(co2[i])]
                     slope == _regression_slope(values, logs)
                 IN IF slope = <<0, 0>> THEN None
                    ELSE IF slope[1] = 0
                    THEN (IF slope_residue(values, logs) < 0 THEN 0 ELSE None)
                    ELSE IF slope[1] > 0 THEN None
                    ELSE ((0 - slope[1]) * 600) \div slope[2]

\* ------------------------------------------------------------------------
\* Occupancy (engine.py compute_occupancy): the ACH that is used and the
\* updates it proposes.  NoSource stands for an absent ach_source.
NoSource == "None"

\* _moving_average(values, window): trailing means, as rationals
_moving_average(values, window) ==
    IF window <= 1 THEN [idx \in 1..Len(values) |-> QInt(values[idx])]
    ELSE [idx \in 1..Len(values) |->
             QNorm(SumSeq(SubSeq(values, Max({1, idx - window + 1}), idx), 1),
                   idx - Max({1, idx - window + 1}) + 1)]

\* the moving-average window of compute_occupancy
MA_WINDOW == 3

\* `if ach_est and ach_est > 0.1`
estimate_accepted(ach_est) == Truthy(ach_est) /\ ach_est > ACH_MIN_ESTIMATE

\* g = max(options.g_person or DEFAULT_G_PERSON, 1e-9), in units of 1e-9
g_floor(options) ==
    Max({Or(options.g_person, DEFAULT_G_PERSON) * 1000, 1})

\* ventilation_term of a room without air exchange
ventilation_term_zero(ach_used, options, c_t) == QInt(0)

\* Q * (c_t - cout_frac) / g with Q = ach_used * V / 3600: the ACH is in
\* thousandths, the concentrations in ppm and g in 1e-9, which leaves
\* ach_used * V * (c_t - cout_ppm) / (3600 * g)
ventilation_term(ach_used, options, c_t) ==
    QMul(QMul(QMul(QInt(ach_used), QNorm(options.volume_m3, 3600)),
              QSub(c_t, QInt(options.cout_ppm))),
         QNorm(1, g_floor(options)))

\* V * dc_dt / g with dc_dt = (c_t - c_prev) / dt, dt in minutes:
\* V * (c_t - c_prev) * 1000 / (60 * dt * g)
storage_term(options, c_t, c_prev, dt) ==
    QMul(QMul(QInt(options.volume_m3), QSub(c_t, c_prev)),
         QNorm(1000, 60 * dt * g_floor(options)))

\* abs(dc_dt) < 1e-6, with dc_dt in fractions per second
near_steady(c_t, c_prev, dt) == QGt(QInt(60 * dt), QAbs(QSub(c_t, c_prev)))

\* the estimate and the notes of its branch (engine.py 418-435); every
\* derivative estimate of bounded integers is finite
occupancy_estimate(times, smoothed_values, options, ach_used) ==
    IF /\ Len(smoothed_values) >= 2
       /\ times[Len(times)] - times[Len(times) - 1] > 0
    THEN [estimate |->
              QAdd(storage_term(options, smoothed_values[Len(smoothed_values)],
                                smoothed_values[Len(smoothed_values) - 1],
                                times[Len(times)] - times[Len(times) - 1]),
                   ventilation_term(ach_used, options,
                                    smoothed_values[Len(smoothed_values)])),
          notes |->
              IF near_steady(smoothed_values[Len(smoothed_values)],
                             smoothed_values[Len(smoothed_values) - 1],
                             times[Len(times)] - times[Len(times) - 1])
              THEN <<"steady_state">> ELSE <<>>]
    ELSE [estimate |-> ventilation_term(ach_used, options,
                                        smoothed_values[Len(smoothed_values)]),
          notes |-> <<"steady_state_estimate">>]

\* the estimate as it is returned, without the clamp
n_estimate_unclamped(estimate) == estimate

\* max(0.0, estimate)
n_estimate(estimate) == IF estimate[1] < 0 THEN QInt(0) ELSE estimate

\* the occupancy block (engine.py 437-442); the note is the list that the
\* code joins with "; "
occupancy_block(ach_used, ach_source, notes, est) ==
    [n_estimate |-> n_estimate(est.estimate),
     ach_used |-> ach_used,
     ach_source |-> ach_source,
     note |-> notes \o est.notes]

\* the returned occupancy block and updates (engine.py 400-442), given the
\* resolved ACH and the decay estimate
occupancy_info(ach_used, ach_est, ach_origin, times, smoothed_values, options) ==
    IF estimate_accepted(ach_est)
    THEN [info |-> occupancy_block(ach_est, "decay_estimate",
                                   <<"ach_source=" \o ach_origin, "ma3_co2_smoothing",
                                     "ach_estimated_from_decay">>,
                                   occupancy_estimate(times, smoothed_values, options,
                                                      ach_est)),
          updates |-> [ach |-> ach_est, ach_source |-> "decay_estimate"]]
    ELSE [info |-> occupancy_block(ach_used, ach_origin,
                                   <<"ach_source=" \o ach_origin, "ma3_co2_smoothing">>,
                                   occupancy_estimate(times, smoothed_values, options,
                                                      ach_used)),
          updates |-> [ach |-> None, ach_source |-> NoSource]]

\* compute_occupancy from the CO2 samples in time order (engine.py 395-442)
occupancy_of_sorted(sorted, options, ach_origin, allow_estimate) ==
    occupancy_info(IF options.ach # None THEN options.ach ELSE DEFAULT_DEVICE_ACH,
                   IF allow_estimate
                   THEN estimate_ach([i \in 1..Len(sorted) |-> sorted[i].timestamp],
                                     [i \in 1..Len(sorted) |-> sorted[i].co2],
                                     options.cout_ppm)
                   ELSE None,
                   ach_origin,
                   [i \in 1..Len(sorted) |-> sorted[i].timestamp],
                   _moving_average([i \in 1..Len(sorted) |-> sorted[i].co2], MA_WINDOW),
                   options)

compute_occupancy(samples, options, ach_origin, allow_estimate) ==
    LET co2_samples == SelectSeq(samples, LAMBDA s : s.co2 # None)
    IN IF Len(co2_samples) < 1
       THEN [info |-> [n_estimate |-> QInt(0),
                       ach_used |-> IF Truthy(options.ach) THEN options.ach
                                    ELSE DEFAULT_DEVICE_ACH,
                       ach_source |-> ach_origin,
                       note |-> <<"insufficient CO2 data">>],
             updates |-> [ach |-> None, ach_source |-> NoSource]]
       ELSE occupancy_of_sorted(sorted_by_timestamp(co2_samples), options, ach_origin,
                                allow_estimate)

\* ------------------------------------------------------------------------
\* engine.py compute_baseline: the result and the proposed context updates
\* the returned result and updates (engine.py 474-497)
baseline_out(device_id, now, nowcast_latest, smoke, occ, options) ==
    [result |-> [device_id |-> device_id, smoke |-> smoke.info,
                 occupancy |-> occ.info],
     updates |-> [timestamp |-> now,
                  nowcast_pm25 |-> nowcast_latest,
                  volume_m3 |-> options.volume_m3,
                  cout_ppm |-> options.cout_ppm,
                  smoke_state |-> smoke.state,
                  ach |-> occ.updates.ach,
                  ach_source |-> occ.updates.ach_source]]

\* nowcasts[-1][1] if nowcasts else None
nowcast_latest_of(nowcasts) ==
    IF nowcasts = <<>> THEN NoneQ ELSE nowcasts[Len(nowcasts)].value

\* [(s.timestamp, s.pm25) for s in sorted_samples if s.pm25 is not None]
pm_series_of(with_pm) ==
    [i \in 1..Len(with_pm) |->
        [timestamp |-> with_pm[i].timestamp, value |-> with_pm[i].pm25]]

\* compute_baseline once the NowCast series is known (engine.py 461-497)
baseline_of_nowcasts(device_id, sorted, nowcasts, options, device_state, ach_origin, allow_update) ==
    baseline_out(device_id, sorted[Len(sorted)].timestamp, nowcast_latest_of(nowcasts),
                 assess_smoke(nowcasts, device_state.smoke),
                 compute_occupancy(sorted, options, ach_origin, allow_update),
                 options)

\* the NowCast series of the samples in time order (engine.py 460-461)
nowcasts_of_sorted(sorted) ==
    compute_nowcast_series(pm_series_of(SelectSeq(sorted, LAMBDA s : s.pm25 # None)))

\* compute_baseline on the samples in time order (engine.py 458-497)
baseline_of_sorted(device_id, sorted, options, device_state, ach_origin, allow_update) ==
    baseline_of_nowcasts(device_id, sorted, nowcasts_of_sorted(sorted),
                         options, device_state, ach_origin, allow_update)

compute_baseline(device_id, samples, options, device_state, ach_origin, allow_update) ==
    baseline_of_sorted(device_id, sorted_by_timestamp(samples), options, device_state,
                       ach_origin, allow_update)

\* ------------------------------------------------------------------------
\* Device State Store (device_state.py DeviceState, switch.py)

\* DeviceState(device_id=device_id)
NewDeviceState(device_id) ==
    [device_id |-> device_id,
     volume_m3 |-> DEFAULT_VOLUME_M3,
     ach |-> None,
     cout_ppm |-> DEFAULT_DEVICE_COUT_PPM,
     ach_source |-> "default",
     last_nowcast_pm25 |-> NoneQ,
     g_person |-> DEFAULT_G_PERSON,
     last_updated |-> NoTime,
     smoke |-> NewSmokeState]

\* a key without an entry in _DEVICE_STATE / _LAST_RESULTS
NoState == [absent |-> TRUE]
NoResult == [absent |-> TRUE]

\* update_context that stores the NowCast argument even when it is absent
update_context_overwrites(state, ach, ach_source, volume_m3, cout_ppm, nowcast_pm25, timestamp, g_person) ==
    [state EXCEPT
        !.volume_m3 = IF volume_m3 # None THEN volume_m3 ELSE @,
        !.cout_ppm = IF cout_ppm # None THEN cout_ppm ELSE @,
        !.ach = IF ach # None THEN ach ELSE @,
        !.ach_source = IF ach_source # NoSource THEN ach_source ELSE @,
        !.last_nowcast_pm25 = nowcast_pm25,
        !.last_updated = IF timestamp # NoTime THEN timestamp ELSE @,
        !.g_person = IF g_person # None THEN g_person ELSE @]

\* DeviceState.update_context: an absent argument leaves its field alone
update_context(state, ach, ach_source, volume_m3, cout_ppm, nowcast_pm25, timestamp, g_person) ==
    [state EXCEPT
        !.volume_m3 = IF volume_m3 # None THEN volume_m3 ELSE @,
        !.cout_ppm = IF cout_ppm # None THEN cout_ppm ELSE @,
        !.ach = IF ach # None THEN ach ELSE @,
        !.ach_source = IF ach_source # NoSource THEN ach_source ELSE @,
        !.last_nowcast_pm25 = IF nowcast_pm25 # NoneQ THEN nowcast_pm25 ELSE @,
        !.last_updated = IF timestamp # NoTime THEN timestamp ELSE @,
        !.g_person = IF g_person # None THEN g_person ELSE @]

\* _state_for: the stored state, created with defaults on first reference
_state_for(store, device_id) ==
    IF store[device_id] = NoState THEN NewDeviceState(device_id) ELSE store[device_id]

\* the optional physical parameters of a request, or the explicit overrides
Params(v, a, c, g) == [volume_m3 |-> v, ach |-> a, cout_ppm |-> c, g_per_person |-> g]
NoParams == Params(None, None, None, None)

\* _resolve_options: `or` skips absent and zero values, the ACH chain only absent ones
_resolve_options(state, request, ov) ==
    LET resolved_volume ==
            Or(ov.volume_m3, Or(request.volume_m3, Or(state.volume_m3, DEFAULT_VOLUME_M3)))
        resolved_cout ==
            Or(ov.cout_ppm, Or(request.cout_ppm, Or(state.cout_ppm, DEFAULT_DEVICE_COUT_PPM)))
        resolved_ach ==
            IF ov.ach # None THEN ov.ach
            ELSE IF request.ach # None THEN request.ach
            ELSE IF state.ach # None THEN state.ach
            ELSE DEFAULT_DEVICE_ACH
        ach_origin ==
            IF ov.ach # None THEN "provided"
            ELSE IF request.ach # None THEN "provided"
            ELSE IF state.ach # None
                 THEN (IF state.ach_source = "" THEN "cached" ELSE state.ach_source)
            ELSE "default"
    IN [options |-> [volume_m3 |-> resolved_volume,
                     ach |-> resolved_ach,
                     cout_ppm |-> resolved_cout,
                     g_person |-> Or(ov.g_per_person,
                                     Or(request.g_per_person_m3_s, state.g_person))],
        ach_origin |-> ach_origin]

\* BaselineRequest
Request(id, readings, p) ==
    [device_id |-> id, readings |-> readings, volume_m3 |-> p.volume_m3, ach |-> p.ach,
     cout_ppm |-> p.cout_ppm, g_per_person_m3_s |-> p.g_per_person]

\* commit_updates without the write of the smoke state
commit_updates_no_smoke(state, updates, options) ==
    update_context(state,
                   Or(updates.ach, state.ach),
                   IF updates.ach_source # NoSource /\ updates.ach_source # ""
                   THEN updates.ach_source ELSE state.ach_source,
                   Or(updates.volume_m3, state.volume_m3),
                   Or(updates.cout_ppm, state.cout_ppm),
                   updates.nowcast_pm25,
                   updates.timestamp,
                   options.g_person)

\* a commit that caches the resolved ACH when the computation proposed none
commit_updates_caches_resolved(state, updates, options) ==
    [update_context(state,
                    Or(updates.ach, Or(options.ach, state.ach)),
                    IF updates.ach_source # NoSource /\ updates.ach_source # ""
                    THEN updates.ach_source ELSE state.ach_source,
                    Or(updates.volume_m3, state.volume_m3),
                    Or(updates.cout_ppm, state.cout_ppm),
                    updates.nowcast_pm25,
                    updates.timestamp,
                    options.g_person)
     EXCEPT !.smoke = updates.smoke_state]

\* the commit of _compute (switch.py 149-161), on the state as it is now
commit_updates(state, updates, options) ==
    [update_context(state,
                    Or(updates.ach, state.ach),
                    IF updates.ach_source # NoSource /\ updates.ach_source # ""
                    THEN updates.ach_source ELSE state.ach_source,
                    Or(updates.volume_m3, state.volume_m3),
                    Or(updates.cout_ppm, state.cout_ppm),
                    updates.nowcast_pm25,
                    updates.timestamp,
                    options.g_person)
     EXCEPT !.smoke = updates.smoke_state]

\* what _compute holds after compute_baseline returned (switch.py 138-147)
computed(device_id, created, options, out) ==
    [ok |-> TRUE, error |-> "", device_id |-> device_id, store |-> created,
     options |-> options, result |-> out.result, updates |-> out.updates]

\* _compute up to and including compute_baseline (switch.py 114-147): the
\* device's state is looked up (and created), the options are resolved, the
\* samples are validated and the result and the updates are computed
compute_phase(store, request, ov, update_state) ==
    LET device_id == device_or_unknown(request.device_id)
        state == _state_for(store, device_id)
        resolved == _resolve_options(state, request, ov)
        samples == _samples_from_request(request.readings)
        created == [store EXCEPT ![device_id] = state]
    IN IF samples = <<>>
       THEN [ok |-> FALSE, error |-> "No valid readings provided",
             device_id |-> device_id, store |-> created]
       ELSE computed(device_id, created, resolved.options,
                     compute_baseline(device_id, samples, resolved.options, state,
                                      resolved.ach_origin, update_state))

\* commit_phase that commits whatever update_state says
commit_phase_always(store, results, c, update_state) ==
    [store |-> [store EXCEPT ![c.device_id] = commit_updates(@, c.updates, c.options)],
     results |-> [results EXCEPT ![c.device_id] = c.result]]

\* commit_phase that caches the result only when it commits the context
commit_phase_batch_only(store, results, c, update_state) ==
    [store |-> IF update_state
               THEN [store EXCEPT ![c.device_id] = commit_updates(@, c.updates, c.options)]
               ELSE store,
     results |-> IF update_state THEN [results EXCEPT ![c.device_id] = c.result]
                 ELSE results]

\* _compute from the commit on (switch.py 149-164)
commit_phase(store, results, c, update_state) ==
    [store |-> IF update_state
               THEN [store EXCEPT ![c.device_id] = commit_updates(@, c.updates, c.options)]
               ELSE store,
     results |-> [results EXCEPT ![c.device_id] = c.result]]

\* how _compute ends, given what its first part computed: the error raised
\* at switch.py 136, or the commit and the returned result
compute_end(results, c, update_state) ==
    IF ~c.ok
    THEN [ok |-> FALSE, error |-> c.error, store |-> c.store, results |-> results,
          result |-> NoResult]
    ELSE LET done == commit_phase(c.store, results, c, update_state)
         IN [ok |-> TRUE, error |-> "", store |-> done.store,
             results |-> done.results, result |-> c.result]

\* _compute, run to completion on the stores it is given: the stores after
\* it, and its result or its error
_compute(store, results, request, ov, update_state) ==
    compute_end(results, compute_phase(store, request, ov, update_state), update_state)

\* ------------------------------------------------------------------------
\* The orchestrator's stores (switch.py 19-22)
VARIABLES
    history,        \* _HISTORY: device -> bounded deque of entries
    device_state,   \* _DEVICE_STATE: device -> DeviceState, or NoState
    last_results,   \* _LAST_RESULTS: device -> result, or NoResult
    op,             \* the last call: its input, the device's entries before it, its outcome
    streamed,       \* streaming submissions per device since its last batch
    workload,       \* the workload this run draws its inputs from
    thread,         \* concurrent requests: each worker thread's position and locals
    base,           \* the stores when the worker threads were started
    mode            \* _MODE

vars == <<history, device_state, last_results, op, streamed, workload, thread, base, mode>>

\* ------------------------------------------------------------------------
\* Inputs.  A run draws its requests from one workload, so that the state
\* space is the sum, not the product, of the workloads' state spaces.
ReadingA == Reading(0, NoId, 10, 1444)
ReadingB == Reading(5, NoId, 80, 932)
ReadingC == Reading(20, NoId, None, 676)
ReadingD == Reading(20, NoId, 10, None)
ReadingX == Reading(Unparsable, NoId, 80, None)
\* CO2 at the outdoor baseline
ReadingE == Reading(20, NoId, None, DEFAULT_DEVICE_COUT_PPM)
\* the CO2 of ReadingB, 25 minutes later
ReadingF == Reading(30, NoId, None, 932)
\* CO2 below the outdoor baseline
ReadingG == Reading(0, NoId, None, 400)
\* the reading of the office scenario: co2 900, pm25 10
ReadingS == Reading(0, NoId, 10, 900)

SuppliedParams == Params(100, 2000, 400, 5)
OverrideParams == Params(50, 500, 400, 6)
\* parameters supplied with the value zero
ZeroParams == Params(0, 0, 0, 0)
\* a request that supplies its own ACH only
AchParams == Params(None, 2000, None, None)
\* a negative ACH and a negative generation rate
NegativeParams == Params(None, 0 - 2000, None, 0 - 3)

RECURSIVE SeqsUpTo(_, _)
SeqsUpTo(S, n) ==
    IF n = 0 THEN {<<>>}
    ELSE LET shorter == SeqsUpTo(S, n - 1)
         IN shorter \cup {Append(s, x) : s \in shorter, x \in S}

LongReading(i) ==
    Reading((i % 3) * 5, NoId, IF i % 100 = 0 THEN 80 ELSE None, None)
LongBatch(n) == [i \in 1..n |-> LongReading(i)]
LongBatches == {LongBatch(n) : n \in HISTORY_MAXLEN..(HISTORY_MAXLEN + OverLong)}

Workloads ==
    {"smoke", "context", "decay", "estimate", "occupancy", "scenario", "long", "devices",
     "invalid", "mode", "latest"}

WorkloadIds(w) ==
    CASE w \in {"devices", "race"} -> {NoId, "d1"}
      [] w = "scenario" -> {"office_iaq"}
      [] OTHER -> {"d1"}

WorkloadReadings(w) ==
    CASE w = "smoke" -> {ReadingA, ReadingB, ReadingD}
      [] w = "context" -> {ReadingA, ReadingC}
      [] w = "decay" -> {ReadingC}
      [] w = "estimate" -> {ReadingC}
      [] w = "occupancy" -> {ReadingC, ReadingG}
      [] w = "scenario" -> {ReadingS}
      [] w = "long" -> {ReadingA, ReadingB}
      [] w = "devices" -> {ReadingA}
      [] w = "race" -> {ReadingA}
      [] w = "invalid" -> {ReadingA, ReadingX}
      [] w = "mode" -> {ReadingA}
      [] w = "latest" -> {ReadingD}

WorkloadBatches(w) ==
    CASE w = "smoke" -> SeqsUpTo({ReadingA, ReadingB}, MaxBatch)
      [] w = "context" -> SeqsUpTo({ReadingA, ReadingB, ReadingC}, 1) \cup {<<ReadingD>>}
      [] w = "decay" ->
            {b \in SeqsUpTo({ReadingA, ReadingB, ReadingC}, MIN_DECAY_POINTS) :
                Len(b) = MIN_DECAY_POINTS}
      [] w = "estimate" -> {<<ReadingA, ReadingB, ReadingC>>,
                            <<ReadingC, ReadingC, ReadingC>>,
                            <<ReadingA, ReadingB, ReadingE>>,
                            <<ReadingB, ReadingB, ReadingF>>,
                            <<ReadingC, ReadingC, ReadingF>>}
      [] w = "occupancy" -> {<<ReadingG>>, <<ReadingG, ReadingC>>,
                             <<ReadingA, ReadingB>>, <<ReadingB, ReadingF>>}
      [] w = "scenario" -> {<<ReadingS>>}
      [] w = "long" -> LongBatches
      [] w = "devices" -> {<<>>, <<ReadingA>>, <<ReadingA, ReadingB>>}
      [] w = "race" -> {<<>>, <<ReadingA>>}
      [] w = "invalid" -> {<<ReadingA>>, <<ReadingX, ReadingA>>, <<ReadingX>>}
      [] w = "mode" -> {<<ReadingA>>}
      [] w = "latest" -> {<<ReadingA, ReadingB>>, <<ReadingA, ReadingB, ReadingD>>,
                          <<ReadingA, ReadingD>>}

WorkloadParams(w) ==
    CASE w = "context" -> {NoParams, SuppliedParams, ZeroParams}
      [] w = "estimate" -> {NoParams, AchParams}
      [] w = "occupancy" -> {NoParams, NegativeParams}
      [] OTHER -> {NoParams}

WorkloadOverrides(w) ==
    CASE w = "context" -> {NoParams, OverrideParams, ZeroParams}
      [] w = "occupancy" -> {NoParams, NegativeParams}
      [] OTHER -> {NoParams}

Devices == {"unknown", "d1", "office_iaq"}

Payloads(w) ==
    {[r EXCEPT !.device_id = id] : r \in WorkloadReadings(w), id \in WorkloadIds(w)}

Requests(w) ==
    {Request(id, b, p) : id \in WorkloadIds(w), b \in WorkloadBatches(w),
                         p \in WorkloadParams(w)}

\* ------------------------------------------------------------------------
\* History buffer (switch.py)

\* a deque without maxlen
deque_append_unbounded(buffer, entry) == Append(buffer, entry)

\* deque(maxlen=288).append
deque_append(buffer, entry) == LastN(Append(buffer, entry), HISTORY_MAXLEN)

\* record_history that files every reading under "unknown"
record_history_unknown(hist, reading) ==
    [hist EXCEPT !["unknown"] = deque_append(@, history_entry(reading))]

\* record_history
record_history(hist, reading) ==
    [hist EXCEPT ![device_or_unknown(reading.device_id)] =
        deque_append(@, history_entry(reading))]

\* build_request_from_history, for a device whose buffer is not empty
build_request_from_history(hist, device_id) ==
    Request(device_id,
            [i \in 1..Len(hist[device_id]) |-> reading_from_entry(hist[device_id][i])],
            NoParams)

\* record_manual_request without history.clear()
record_manual_request_no_clear(hist, request, result) ==
    [hist EXCEPT ![device_or_unknown(request.device_id)] =
        LastN(@ \o [i \in 1..Len(request.readings) |-> history_entry(request.readings[i])],
              HISTORY_MAXLEN)]

\* record_manual_request: history.clear(), then one append per reading; what
\* the bounded deque then holds is the last HISTORY_MAXLEN of the entries
record_manual_request(hist, request, result) ==
    LET device_id == IF request.device_id # NoId /\ request.device_id # ""
                     THEN request.device_id
                     ELSE device_or_unknown(result.device_id)
        entries == [i \in 1..Len(request.readings) |-> history_entry(request.readings[i])]
    IN [hist EXCEPT ![device_id] = LastN(entries, HISTORY_MAXLEN)]

\* ------------------------------------------------------------------------
\* The two entry points, each run to completion on the stores it is given
Stores(h, s, r) == [history |-> h, device_state |-> s, last_results |-> r]

\* the pydantic ValidationError raised by BaselineReading(**payload) or
\* BaselineRequest(**payload), before any store is touched
validation_error(st) ==
    [ok |-> FALSE, error |-> "validation error", result |-> NoResult, stores |-> st]

\* compute_from_payload after its _compute call returned or raised
stream_end(recorded, out) ==
    [ok |-> out.ok, error |-> out.error, result |-> out.result,
     stores |-> Stores(recorded, out.store, out.results)]

\* compute_from_payload(payload, volume_m3, ach, cout_ppm, g_per_person)
stream_call(st, payload, ov) ==
    LET device_id == device_or_unknown(payload.device_id)
        recorded == record_history(st.history, payload)
        request == IF recorded[device_id] # <<>>
                   THEN build_request_from_history(recorded, device_id)
                   ELSE Request(device_id, <<payload>>, NoParams)
    IN IF ~BaselineReading_validates(payload) THEN validation_error(st)
       ELSE stream_end(recorded,
                       _compute(st.device_state, st.last_results, request, ov, FALSE))

\* batch_end that empties the history when _compute raised
batch_end_clears_on_error(st, request, out) ==
    IF out.ok
    THEN [ok |-> TRUE, error |-> "", result |-> out.result,
          stores |-> Stores(record_manual_request(st.history, request, out.result),
                            out.store,
                            [out.results EXCEPT ![device_or_unknown(request.device_id)] =
                                out.result])]
    ELSE [ok |-> FALSE, error |-> out.error, result |-> NoResult,
          stores |-> Stores([st.history EXCEPT ![device_or_unknown(request.device_id)] = <<>>],
                            out.store, st.last_results)]

\* compute_request_payload after its _compute call returned or raised
batch_end(st, request, out) ==
    IF out.ok
    THEN [ok |-> TRUE, error |-> "", result |-> out.result,
          stores |-> Stores(record_manual_request(st.history, request, out.result),
                            out.store,
                            [out.results EXCEPT ![device_or_unknown(request.device_id)] =
                                out.result])]
    ELSE [ok |-> FALSE, error |-> out.error, result |-> NoResult,
          stores |-> Stores(st.history, out.store, st.last_results)]

\* compute_request_payload(payload)
batch_call(st, request) ==
    IF ~BaselineRequest_validates(request) THEN validation_error(st)
    ELSE batch_end(st, request,
                   _compute(st.device_state, st.last_results, request, NoParams, TRUE))

Current == Stores(history, device_state, last_results)

\* what the stores hold for one device
device_view(st, d) ==
    [history |-> st.history[d], state |-> st.device_state[d], last |-> st.last_results[d]]

\* get_last
get_last(results, device_id) == results[device_id]

EmptyStores ==
    Stores([d \in Devices |-> <<>>], [d \in Devices |-> NoState],
           [d \in Devices |-> NoResult])

Threads == {1, 2}
Idle == [pc |-> "idle"]

Init ==
    /\ history = EmptyStores.history
    /\ device_state = EmptyStores.device_state
    /\ last_results = EmptyStores.last_results
    /\ op = [kind |-> "init"]
    /\ streamed = [d \in Devices |-> 0]
    /\ workload \in Workloads
    /\ thread = [t \in Threads |-> Idle]
    /\ mode = "baseline"
    /\ base = EmptyStores

\* the stores, and the record of the call, after a streaming submission
stream_step(device_id, payload, ov, out) ==
    /\ history' = out.stores.history
    /\ device_state' = out.stores.device_state
    /\ last_results' = out.stores.last_results
    /\ op' = [kind |-> "stream", device |-> device_id, ok |-> out.ok,
              payload |-> payload, ov |-> ov, result |-> out.result,
              before |-> device_view(Current, device_id)]
    /\ streamed' = [streamed EXCEPT ![device_id] = @ + 1]
    /\ UNCHANGED <<workload, thread, base, mode>>

compute_from_payload(payload, ov) ==
    /\ streamed[device_or_unknown(payload.device_id)] < MaxStream
    /\ stream_step(device_or_unknown(payload.device_id), payload, ov,
                   stream_call(Current, payload, ov))

\* the stores, and the record of the call, after a batch submission
batch_step(device_id, request, out) ==
    /\ history' = out.stores.history
    /\ device_state' = out.stores.device_state
    /\ last_results' = out.stores.last_results
    /\ op' = [kind |-> "batch", device |-> device_id, ok |-> out.ok,
              error |-> out.error, request |-> request, result |-> out.result,
              before |-> device_view(Current, device_id)]
    /\ streamed' = IF out.ok THEN [streamed EXCEPT ![device_id] = 0] ELSE streamed
    /\ UNCHANGED <<workload, thread, base, mode>>

compute_request_payload(request) ==
    batch_step(device_or_unknown(request.device_id), request, batch_call(Current, request))

\* the strings a caller may pass as a mode
ModeInputs == {"baseline", "ml", "garbage"}

\* ModeRequest: mode must match ^(baseline|ml)$
ModeRequest_validates(x) == x \in {"baseline", "ml"}

\* get_mode
get_mode == mode

\* _MODE after set_mode(x)
mode_set(x) == IF x = "baseline" THEN "baseline" ELSE "ml"

\* switch.set_mode(x), called directly
set_mode(x) ==
    /\ workload = "mode"
    /\ mode' = mode_set(x)
    /\ op' = [kind |-> "set_mode", arg |-> x, ok |-> TRUE, before |-> mode]
    /\ UNCHANGED <<history, device_state, last_results, streamed, workload, thread, base>>

\* POST /baseline/mode: the body is validated as a ModeRequest, then set_mode
update_mode(x) ==
    /\ workload = "mode"
    /\ mode' = IF ModeRequest_validates(x) THEN mode_set(x) ELSE mode
    /\ op' = [kind |-> "update_mode", arg |-> x, ok |-> ModeRequest_validates(x),
              before |-> mode]
    /\ UNCHANGED <<history, device_state, last_results, streamed, workload, thread, base>>

Next ==
    \/ \E payload \in Payloads(workload), ov \in WorkloadOverrides(workload) :
          compute_from_payload(payload, ov)
    \/ \E request \in Requests(workload) : compute_request_payload(request)
    \/ \E x \in ModeInputs : set_mode(x)
    \/ \E x \in ModeInputs : update_mode(x)

Spec == Init /\ [][Next]_vars

\* ------------------------------------------------------------------------
\* Concurrent requests.  The endpoints are synchronous handlers that the
\* server runs on worker threads; switch.py takes no lock, so two handlers
\* interleave between their reads and writes of the module-level stores.
\* Each handler is cut where it reads or writes them:
\*   batch:  compute (114-147) | commit (149-164) | record_manual_request
\*   stream: record_history | build request and compute | _LAST_RESULTS write
\* The commit is applied to the entry the store holds for the device when
\* the commit runs (the DeviceState object is shared once it is stored).
\* The threads start on stores that a served request may have left.
RacePrefixes == {<<>>, <<Request("d1", <<ReadingA, ReadingB>>, NoParams)>>}

RECURSIVE ServeAll(_, _, _)
ServeAll(st, requests, i) ==
    IF i > Len(requests) THEN st
    ELSE ServeAll(batch_call(st, requests[i]).stores, requests, i + 1)

InitConc ==
    /\ \E prefix \in RacePrefixes : base = ServeAll(EmptyStores, prefix, 1)
    /\ history = base.history
    /\ device_state = base.device_state
    /\ last_results = base.last_results
    /\ op = [kind |-> "init"]
    /\ streamed = [d \in Devices |-> 0]
    /\ workload = "race"
    /\ thread = [t \in Threads |-> Idle]
    /\ mode = "baseline"

\* a thread after the first part of _compute: it goes on to `next`, or its
\* request ends with the error
Computed(t, call, c, next) ==
    /\ device_state' = c.store
    /\ thread' = [thread EXCEPT ![t] =
                     IF c.ok THEN [pc |-> next, call |-> call, c |-> c]
                     ELSE [pc |-> "done", call |-> call, ok |-> FALSE]]

BatchStart(t, request) ==
    /\ thread[t].pc = "idle"
    /\ BaselineRequest_validates(request)
    /\ Computed(t, [kind |-> "batch", request |-> request,
                    device |-> device_or_unknown(request.device_id)],
                compute_phase(device_state, request, NoParams, TRUE), "commit")
    /\ UNCHANGED <<history, last_results, op, streamed, workload, base, mode>>

BatchCommit(t) ==
    /\ thread[t].pc = "commit"
    /\ LET done == commit_phase(device_state, last_results, thread[t].c, TRUE)
       IN /\ device_state' = done.store
          /\ last_results' = done.results
    /\ thread' = [thread EXCEPT ![t] =
                     [pc |-> "record", call |-> thread[t].call,
                      result |-> thread[t].c.result]]
    /\ UNCHANGED <<history, op, streamed, workload, base, mode>>

BatchRecord(t) ==
    /\ thread[t].pc = "record"
    /\ history' = record_manual_request(history, thread[t].call.request, thread[t].result)
    /\ last_results' = [last_results EXCEPT ![thread[t].call.device] = thread[t].result]
    /\ thread' = [thread EXCEPT ![t] = [pc |-> "done", call |-> thread[t].call, ok |-> TRUE]]
    /\ UNCHANGED <<device_state, op, streamed, workload, base, mode>>

StreamStart(t, payload, ov) ==
    LET call == [kind |-> "stream", payload |-> payload, ov |-> ov,
                 device |-> device_or_unknown(payload.device_id)]
    IN /\ thread[t].pc = "idle"
       /\ BaselineReading_validates(payload)
       /\ history' = record_history(history, payload)
       /\ thread' = [thread EXCEPT ![t] = [pc |-> "build", call |-> call]]
       /\ UNCHANGED <<device_state, last_results, op, streamed, workload, base, mode>>

StreamCompute(t) ==
    LET call == thread[t].call
        request == IF history[call.device] # <<>>
                   THEN build_request_from_history(history, call.device)
                   ELSE Request(call.device, <<call.payload>>, NoParams)
    IN /\ thread[t].pc = "build"
       /\ Computed(t, call, compute_phase(device_state, request, call.ov, FALSE), "store")
       /\ UNCHANGED <<history, last_results, op, streamed, workload, base, mode>>

StreamStore(t) ==
    /\ thread[t].pc = "store"
    /\ last_results' = commit_phase(device_state, last_results, thread[t].c, FALSE).results
    /\ thread' = [thread EXCEPT ![t] = [pc |-> "done", call |-> thread[t].call, ok |-> TRUE]]
    /\ UNCHANGED <<history, device_state, op, streamed, workload, base, mode>>

NextConc ==
    \/ \E t \in Threads, request \in Requests(workload) : BatchStart(t, request)
    \/ \E t \in Threads : BatchCommit(t)
    \/ \E t \in Threads : BatchRecord(t)
    \/ \E t \in Threads, payload \in Payloads(workload) : StreamStart(t, payload, NoParams)
    \/ \E t \in Threads : StreamCompute(t)
    \/ \E t \in Threads : StreamStore(t)

SpecConc == InitConc /\ [][NextConc]_vars

\* ------------------------------------------------------------------------
\* The pure functions of engine.py, each applied once to an input drawn at
\* the start.  The stores stay empty; op holds the input, then the result.

\* concentrations in hundredths of ug/m3: the bounds of every row, the
\* points between one row and the next, points inside the rows and above
\* the table
RowBounds ==
    UNION {{PM25_BREAKPOINTS[k][1] * 10, PM25_BREAKPOINTS[k][2] * 10} :
              k \in 1..Len(PM25_BREAKPOINTS)}
BetweenRows == {b + 5 : b \in {PM25_BREAKPOINTS[k][2] * 10 : k \in 1..Len(PM25_BREAKPOINTS)}}
AqiStep == 2500
AqiSteps == 24
AqiPoints == RowBounds \cup BetweenRows \cup {i * AqiStep : i \in 0..AqiSteps}
AqiInputs == {QNorm(h, 100) : h \in AqiPoints} \cup {NoneQ}

\* PM2.5 series: empty, absent values only, one value, constant series up
\* to NOWCAST_WINDOW + OverWindow values, and series that vary
ConstantValues == {0, 10, 80}
OverWindow == 2
NowcastInputs ==
    {<<>>, <<None>>, <<None, None>>, <<35>>, <<None, 10>>, <<10, None>>,
     <<10, 80>>, <<80, 10>>, <<10, None, 10>>}
        \cup {[i \in 1..n |-> v] : n \in 1..(NOWCAST_WINDOW + OverWindow), v \in ConstantValues}

\* inputs of build_iaq: the weights of the configuration (the defaults,
\* weights of 1 each, negative weights) and the five measurements
WeightInputs ==
    {IAQ_WEIGHTS,
     IAQWeights(QInt(1), QInt(1), QInt(1), QInt(1)),
     IAQWeights(QInt(0 - 1), QInt(0 - 1), QInt(0 - 1), QInt(0 - 1))}
IaqNowcasts == {NoneQ, QInt(0), QInt(10), <<241, 20>>, <<111, 2>>, QInt(600)}
IaqCo2 == {None, 400, 800, 900, 2000, 0 - 40000}
IaqVoc == {None, 100, 440, 1430, 3000}
IaqTemp == {None, 10, 22, 40}
IaqRh == {None, 10, 45, 90}

FnStores ==
    /\ history = EmptyStores.history
    /\ device_state = EmptyStores.device_state
    /\ last_results = EmptyStores.last_results
    /\ streamed = [d \in Devices |-> 0]
    /\ workload = "functions"
    /\ thread = [t \in Threads |-> Idle]
    /\ mode = "baseline"
    /\ base = EmptyStores

InitFn ==
    /\ FnStores
    /\ \/ \E c \in AqiInputs : op = [kind |-> "input", fn |-> "pm25_aqi", nowcast |-> c]
       \/ \E values \in NowcastInputs :
             op = [kind |-> "input", fn |-> "compute_nowcast_pm25", values |-> values]
       \/ \E w \in WeightInputs, c \in IaqNowcasts, co2 \in IaqCo2, voc \in IaqVoc,
             t \in IaqTemp, rh \in IaqRh :
             op = [kind |-> "input", fn |-> "build_iaq", weights |-> w, nowcast |-> c,
                   co2 |-> co2, voc |-> voc, temp_c |-> t, rh |-> rh]

pm25_aqi_step ==
    /\ op.kind = "input" /\ op.fn = "pm25_aqi"
    /\ op' = [kind |-> "pm25_aqi", nowcast |-> op.nowcast, aqi |-> pm25_aqi(op.nowcast)]
    /\ UNCHANGED <<history, device_state, last_results, streamed, workload, thread, base, mode>>

compute_nowcast_pm25_step ==
    /\ op.kind = "input" /\ op.fn = "compute_nowcast_pm25"
    /\ op' = [kind |-> "compute_nowcast_pm25", values |-> op.values,
              nowcast |-> compute_nowcast_pm25(op.values)]
    /\ UNCHANGED <<history, device_state, last_results, streamed, workload, thread, base, mode>>

build_iaq_step ==
    /\ op.kind = "input" /\ op.fn = "build_iaq"
    /\ op' = [kind |-> "build_iaq", input |-> op,
              iaq |-> build_iaq(op.weights, op.nowcast, op.co2, op.voc, op.temp_c, op.rh)]
    /\ UNCHANGED <<history, device_state, last_results, streamed, workload, thread, base, mode>>

NextFn ==
    \/ pm25_aqi_step
    \/ compute_nowcast_pm25_step
    \/ build_iaq_step

SpecFn == InitFn /\ [][NextFn]_vars

\* ------------------------------------------------------------------------
\* Observations on the last call (Spec)

BatchDone == op.kind = "batch" /\ op.ok
StreamDone == op.kind = "stream" /\ op.ok

\* the DeviceState the call found: the stored one, or the defaults that
\* _state_for creates for a device never referenced before
before_state ==
    IF op.before.state = NoState THEN NewDeviceState(op.device) ELSE op.before.state

after_state == device_state[op.device]

\* the readings held by a history buffer
readings_of(buffer) == [i \in 1..Len(buffer) |-> reading_from_entry(buffer[i])]

\* the entries of a list of readings
entries_of(readings) == [i \in 1..Len(readings) |-> history_entry(readings[i])]

\* the readings the last call computed over: the request's, or the buffer's
evaluated_readings ==
    IF op.kind = "batch" THEN op.request.readings ELSE readings_of(history[op.device])

\* the NowCast series the smoke detector was given for a list of readings
smoke_series(readings) ==
    sorted_by_timestamp(
        nowcasts_of_sorted(sorted_by_timestamp(_samples_from_request(readings))))

latest_nowcast(series) == series[Len(series)].value

\* latest NowCast >= trigger and rise >= min_rise
TriggerSeen(series) ==
    /\ QGeq(latest_nowcast(series), QInt(SMOKE_TRIGGER))
    /\ QGeq(QSub(latest_nowcast(series), smoke_previous(series)), QInt(SMOKE_MIN_RISE))

\* latest NowCast <= trigger - clear_delta
BelowClear(series) ==
    QLeq(latest_nowcast(series), QInt(SMOKE_TRIGGER - SMOKE_CLEAR_DELTA))

\* ------------------------------------------------------------------------
\* C1

HysteresisStep(was, now, series) ==
    /\ was.consecutive_below < SMOKE_CONSECUTIVE
    /\ series = <<>> => now = was
    /\ series # <<>> /\ was.active =>
          /\ TriggerSeen(series) => now = SmokeState(TRUE, 0, "rapid_rise")
          /\ ~TriggerSeen(series) /\ ~BelowClear(series) =>
                now = SmokeState(TRUE, 0, "hysteresis_hold")
          /\ ~TriggerSeen(series) /\ BelowClear(series)
                /\ was.consecutive_below + 1 < SMOKE_CONSECUTIVE =>
                now = SmokeState(TRUE, was.consecutive_below + 1, "hysteresis_hold")
          /\ ~TriggerSeen(series) /\ BelowClear(series)
                /\ was.consecutive_below + 1 = SMOKE_CONSECUTIVE =>
                now = SmokeState(FALSE, 0, "clearing")
          /\ ~now.active <=>
                (~TriggerSeen(series) /\ BelowClear(series)
                 /\ was.consecutive_below + 1 = SMOKE_CONSECUTIVE)

\* C1: after every successful batch request the stored smoke state follows
\* the hysteresis rule from the state stored before it.  An active state
\* stays active (hysteresis_hold, count + 1) on an evaluation at or below
\* the clear threshold that is not yet the SMOKE_CONSECUTIVE-th in a row,
\* becomes inactive (clearing) exactly on the SMOKE_CONSECUTIVE-th, and has
\* its count reset to 0 by an evaluation above the clear threshold or by a
\* trigger; a batch without PM2.5 leaves the state as it was.
C1_BatchHysteresis ==
    BatchDone => HysteresisStep(before_state.smoke, after_state.smoke,
                                smoke_series(op.request.readings))

\* a batch that was the second consecutive evaluation at or below the clear
\* threshold of an active state, and cleared it
C1_Witness ==
    /\ BatchDone
    /\ before_state.smoke = SmokeState(TRUE, 1, "hysteresis_hold")
    /\ after_state.smoke = SmokeState(FALSE, 0, "clearing")

\* ------------------------------------------------------------------------
\* C2

ActiveOnlyAfterTrigger(was_active, active, present, series) ==
    (active \/ present) => (was_active \/ (series # <<>> /\ TriggerSeen(series)))

\* C2: after every successful call, the stored smoke state is active or the
\* returned result reports smoke_present only if the state stored before the
\* call was already active or this evaluation had latest NowCast >= trigger
\* and rise >= min_rise.  The stored state starts inactive, so by induction
\* an active state or result always has a trigger since the last inactive
\* stored state.
C2_ActiveOnlyAfterTrigger ==
    (BatchDone \/ StreamDone) =>
        ActiveOnlyAfterTrigger(before_state.smoke.active, after_state.smoke.active,
                               op.result.smoke.smoke_present,
                               smoke_series(evaluated_readings))

\* a batch whose latest NowCast is at or above the trigger without the
\* required rise, on an inactive state: it must not activate the detector
C2_Witness ==
    /\ BatchDone
    /\ ~before_state.smoke.active
    /\ smoke_series(op.request.readings) # <<>>
    /\ QGeq(latest_nowcast(smoke_series(op.request.readings)), QInt(SMOKE_TRIGGER))
    /\ ~TriggerSeen(smoke_series(op.request.readings))
    /\ ~after_state.smoke.active

\* ------------------------------------------------------------------------
\* C3

\* C3: on the streaming path, when the previous streaming result for the
\* device reported smoke_present with a latest NowCast above the clear
\* threshold, the next streaming result still reports smoke_present (at most
\* one evaluation at or below the clear threshold can have been seen).
C3_StreamingNoFlicker ==
    (/\ StreamDone
     /\ streamed[op.device] >= 2
     /\ op.before.last # NoResult
     /\ op.before.last.smoke.smoke_present
     /\ QGt(op.before.last.smoke.last_nowcast_pm25,
            QInt(SMOKE_TRIGGER - SMOKE_CLEAR_DELTA)))
    => op.result.smoke.smoke_present

\* ------------------------------------------------------------------------
\* C4

AppendedOnly(was, now, entry) ==
    /\ now # <<>>
    /\ now[Len(now)] = entry
    /\ SubSeq(now, 1, Len(now) - 1) =
          (IF Len(was) < HISTORY_MAXLEN THEN was ELSE SubSeq(was, 2, Len(was)))

\* C4: after a streaming submission for device d, every field of d's
\* DeviceState has the value it had before (the defaults for a device never
\* referenced before), and d's history buffer is the buffer before it with
\* that one reading appended at the end; a submission rejected by the
\* validation of its payload changes neither.
C4_StreamingFrame ==
    /\ StreamDone =>
          /\ after_state = before_state
          /\ AppendedOnly(op.before.history, history[op.device],
                          history_entry(op.payload))
    /\ (op.kind = "stream" /\ ~op.ok) =>
          /\ device_state[op.device] = op.before.state
          /\ history[op.device] = op.before.history

\* a streaming submission whose result reports smoke while the stored smoke
\* state is, and stays, inactive
C4_Witness ==
    /\ StreamDone
    /\ op.before.state # NoState
    /\ op.result.smoke.smoke_present
    /\ ~after_state.smoke.active
    /\ after_state.last_nowcast_pm25 # op.result.smoke.last_nowcast_pm25

\* ------------------------------------------------------------------------
\* C5

\* the latest timestamp of a non-empty list of readings
MaxTimestamp(readings) == Max({readings[i].timestamp : i \in 1..Len(readings)})

ContextCommitted(state, result, smoke, options, readings) ==
    /\ state.smoke = smoke.state
    /\ state.smoke.active = result.smoke.smoke_present
    /\ state.last_nowcast_pm25 = result.smoke.last_nowcast_pm25
    /\ state.last_updated = MaxTimestamp(readings)
    /\ state.volume_m3 = options.volume_m3
    /\ state.cout_ppm = options.cout_ppm
    /\ state.g_person = options.g_person

\* C5: after a successful batch request whose readings include PM2.5, the
\* device's DeviceState holds the smoke state the computation produced (its
\* active flag equal to the returned smoke_present), the returned
\* last_nowcast_pm25, the latest timestamp of the batch as last_updated, and
\* the volume_m3, cout_ppm and g_person resolved for the computation.
C5_BatchCommitsContext ==
    (BatchDone /\ smoke_series(op.request.readings) # <<>>) =>
        ContextCommitted(after_state, op.result,
                         assess_smoke(smoke_series(op.request.readings), before_state.smoke),
                         _resolve_options(before_state, op.request, NoParams).options,
                         op.request.readings)

\* a batch that supplied its own volume, CO2 baseline and generation rate
\* and whose PM2.5 was committed
C5_Witness ==
    /\ BatchDone
    /\ op.request.volume_m3 = SuppliedParams.volume_m3
    /\ before_state.volume_m3 = DEFAULT_VOLUME_M3
    /\ after_state.volume_m3 = SuppliedParams.volume_m3
    /\ after_state.g_person = SuppliedParams.g_per_person
    /\ after_state.last_nowcast_pm25 = QInt(ReadingB.pm25)
    /\ after_state.last_updated = ReadingB.timestamp

\* ------------------------------------------------------------------------
\* C6

\* what a streaming submission returns when it computes over the readings
\* it is given, on the device state it found
stream_result_over(readings) ==
    compute_phase([d \in Devices |-> IF d = op.device THEN op.before.state ELSE NoState],
                  Request(op.device, readings, NoParams), op.ov, FALSE).result

C7_HistoryBounded ==
    /\ \A d \in Devices : Len(history[d]) <= HISTORY_MAXLEN
    /\ (op.kind = "stream" /\ Len(op.before.history) = HISTORY_MAXLEN) =>
          /\ Len(history[op.device]) = HISTORY_MAXLEN
          /\ \A i \in 1..(HISTORY_MAXLEN - 1) :
                history[op.device][i] = op.before.history[i + 1]
          /\ history[op.device][HISTORY_MAXLEN] = history_entry(op.payload)
    /\ (BatchDone /\ Len(op.request.readings) > HISTORY_MAXLEN) =>
          /\ Len(history[op.device]) = HISTORY_MAXLEN
          /\ \A i \in 1..HISTORY_MAXLEN :
                history[op.device][i] =
                    history_entry(op.request.readings[Len(op.request.readings)
                                                      - HISTORY_MAXLEN + i])

\* a streaming submission on a full buffer that evicted the oldest entry,
\* one that differs from the entry that became the oldest
C7_Witness ==
    /\ op.kind = "stream"
    /\ Len(op.before.history) = HISTORY_MAXLEN
    /\ Len(history[op.device]) = HISTORY_MAXLEN
    /\ history[op.device][1] = op.before.history[2]
    /\ history[op.device][1] # op.before.history[1]

\* ------------------------------------------------------------------------
\* Observations on the worker threads (SpecConc)

\* a call, run to completion on the stores it is given
apply_call(st, call) ==
    IF call.kind = "batch" THEN batch_call(st, call.request).stores
    ELSE stream_call(st, call.payload, call.ov).stores

\* the threads that have started a call for device d
TouchedBy(d) == {t \in Threads : thread[t].pc # "idle" /\ thread[t].call.device = d}

AllDone == \A t \in Threads : thread[t].pc = "done"

\* ------------------------------------------------------------------------
\* C8

\* C8: when two concurrent requests for one device have both ended, the
\* stores equal those of running the two requests one after the other, in
\* one order or the other, on the stores the threads started from.
C8_SameDeviceSerializable ==
    (AllDone /\ thread[1].call.device = thread[2].call.device) =>
        \/ Current = apply_call(apply_call(base, thread[1].call), thread[2].call)
        \/ Current = apply_call(apply_call(base, thread[2].call), thread[1].call)

\* ------------------------------------------------------------------------
\* C9

\* C9: in every state of every interleaving, a device no thread has a call
\* for holds what it held when the threads started, and a device whose only
\* call has ended holds what that call alone leaves when run on the stores
\* the threads started from.
C9_DevicesIsolated ==
    \A d \in Devices :
        /\ TouchedBy(d) = {} => device_view(Current, d) = device_view(base, d)
        /\ \A t \in Threads :
              (TouchedBy(d) = {t} /\ thread[t].pc = "done") =>
                  device_view(Current, d) =
                      device_view(apply_call(base, thread[t].call), d)

\* two requests with readings, for different devices, ran interleaved and
\* both ended
C9_Witness ==
    /\ AllDone
    /\ thread[1].call.device # thread[2].call.device
    /\ \A t \in Threads : thread[t].ok
    /\ \E t \in Threads : thread[t].call.kind = "batch"
    /\ \A t \in Threads :
          /\ history[thread[t].call.device] # <<>>
          /\ last_results[thread[t].call.device] # NoResult

\* ------------------------------------------------------------------------
\* C10

\* C10: a validated batch request without a valid sample fails with the error
\* "No valid readings provided", and the device's history buffer, its
\* last-result entry and every field value of its DeviceState are what they
\* were before (the defaults, and no last result, for a new device).
C10_EmptyBatchChangesNothing ==
    (/\ op.kind = "batch"
     /\ BaselineRequest_validates(op.request)
     /\ _samples_from_request(op.request.readings) = <<>>) =>
        /\ ~op.ok
        /\ op.error = "No valid readings provided"
        /\ op.result = NoResult
        /\ history[op.device] = op.before.history
        /\ get_last(last_results, op.device) = op.before.last
        /\ after_state = before_state

\* an empty batch for a device that had a history, a committed context and a
\* last result
C10_Witness ==
    /\ op.kind = "batch"
    /\ op.request.readings = <<>>
    /\ ~op.ok
    /\ op.before.history # <<>>
    /\ op.before.last # NoResult
    /\ op.before.state # NoState
    /\ after_state.smoke.active

\* ------------------------------------------------------------------------
\* C11

\* a list of readings without those whose timestamp cannot be parsed
parsable_readings(readings) == SelectSeq(readings, LAMBDA r : parses(r.timestamp))

\* what a batch request with these readings returns and commits, on the
\* device's entries before the last call
batch_outcome_over(readings) ==
    compute_end([d \in Devices |-> IF d = op.device THEN op.before.last ELSE NoResult],
                compute_phase([d \in Devices |->
                                  IF d = op.device THEN op.before.state ELSE NoState],
                              Request(op.device, readings, NoParams), NoParams, TRUE),
                TRUE)

SameAsWithout(expected) ==
    /\ op.ok
    /\ op.result = expected.result
    /\ device_state[op.device] = expected.store[op.device]

\* C11: a batch request with a reading whose timestamp cannot be parsed, and
\* at least one reading whose timestamp can, succeeds, and its result and
\* the committed DeviceState are those of the request without the
\* unparsable readings.
C11_BadTimestampDiscarded ==
    (/\ op.kind = "batch"
     /\ parsable_readings(op.request.readings) # op.request.readings
     /\ parsable_readings(op.request.readings) # <<>>) =>
        SameAsWithout(batch_outcome_over(parsable_readings(op.request.readings)))

\* ------------------------------------------------------------------------
\* C12

\* C12: after set_mode(x) with x not one of the two valid mode values,
\* get_mode returns what it returned before the call.
C12_InvalidModeKeepsMode ==
    (op.kind = "set_mode" /\ ~ModeRequest_validates(op.arg)) => get_mode = op.before

\* ------------------------------------------------------------------------
\* C13

Computation(o) == o.kind \in {"batch", "stream"}

LastResultStep ==
    /\ (Computation(op') /\ op'.ok) =>
          /\ op'.result # NoResult
          /\ get_last(last_results', op'.device) = op'.result
    /\ (Computation(op') /\ ~op'.ok) =>
          get_last(last_results', op'.device) = get_last(last_results, op'.device)
    /\ \A d \in Devices :
          (~Computation(op') \/ d # op'.device) =>
              get_last(last_results', d) = get_last(last_results, d)

\* C13: get_last(d) is absent at the start; every successful computation
\* for d, streaming or batch, makes it that computation's result; a failed
\* computation for d, and every call for another device, leaves it as it
\* was.  So get_last(d) is absent exactly when no computation for d has
\* succeeded, and is otherwise the result of the most recent one that did.
C13_LastResult ==
    /\ \A d \in Devices : get_last(last_results, d) = NoResult
    /\ [][LastResultStep]_vars

\* a batch request rejected by validation after a successful computation:
\* get_last still returns the earlier result
C13_Witness ==
    /\ op.kind = "batch"
    /\ ~op.ok
    /\ op.error = "validation error"
    /\ op.before.last # NoResult
    /\ get_last(last_results, op.device) = op.before.last

\* ------------------------------------------------------------------------
\* the first of the four candidates that is not absent, whatever its value
first_supplied(override, requested, cached, default) ==
    IF override # None THEN override
    ELSE IF requested # None THEN requested
    ELSE IF cached # None THEN cached
    ELSE default

\* the request parameters and the overrides of the last computation: a
\* streaming request is built from the history and carries no parameters,
\* a batch request is computed without overrides
op_request == IF op.kind = "batch" THEN op.request ELSE Request(op.device, <<>>, NoParams)
op_overrides == IF op.kind = "stream" THEN op.ov ELSE NoParams

\* what _resolve_options returned to the last computation
op_resolved == _resolve_options(before_state, op_request, op_overrides)

\* C14: in every successful computation each physical parameter is the first
\* supplied one in the order override, request, cached device state, default,
\* a value counting as supplied whenever it is not absent (zero included); the
\* ACH origin is 'provided' for an override or request ACH, the cached source
\* for a cached ACH and 'default' otherwise.
C14_FirstSupplied ==
    (Computation(op) /\ op.ok) =>
        /\ op_resolved.options.volume_m3 =
              first_supplied(op_overrides.volume_m3, op_request.volume_m3,
                             before_state.volume_m3, DEFAULT_VOLUME_M3)
        /\ op_resolved.options.cout_ppm =
              first_supplied(op_overrides.cout_ppm, op_request.cout_ppm,
                             before_state.cout_ppm, DEFAULT_DEVICE_COUT_PPM)
        /\ op_resolved.options.g_person =
              first_supplied(op_overrides.g_per_person, op_request.g_per_person_m3_s,
                             before_state.g_person, DEFAULT_G_PERSON)
        /\ op_resolved.options.ach =
              first_supplied(op_overrides.ach, op_request.ach, before_state.ach,
                             DEFAULT_DEVICE_ACH)
        /\ op_resolved.ach_origin =
              IF op_overrides.ach # None \/ op_request.ach # None THEN "provided"
              ELSE IF before_state.ach # None THEN before_state.ach_source
              ELSE "default"

\* ------------------------------------------------------------------------
\* the decay estimate compute_occupancy obtains for a batch (engine.py
\* 386-405): estimate_ach over the CO2 samples in time order
decay_estimate(readings, cout_ppm) ==
    LET co2_samples == sorted_by_timestamp(
                           SelectSeq(_samples_from_request(readings),
                                     LAMBDA s : s.co2 # None))
    IN estimate_ach([i \in 1..Len(co2_samples) |-> co2_samples[i].timestamp],
                    [i \in 1..Len(co2_samples) |-> co2_samples[i].co2],
                    cout_ppm)

\* the decay estimate of the last batch
batch_estimate == decay_estimate(op.request.readings, op_resolved.options.cout_ppm)

\* no field that held a value holds an absent one afterwards
NothingErased(was, now) ==
    /\ was.volume_m3 # None => now.volume_m3 # None
    /\ was.cout_ppm # None => now.cout_ppm # None
    /\ was.ach # None => now.ach # None
    /\ was.ach_source # NoSource => now.ach_source # NoSource
    /\ was.last_nowcast_pm25 # NoneQ => now.last_nowcast_pm25 # NoneQ
    /\ was.last_updated # NoTime => now.last_updated # NoTime
    /\ was.g_person # None => now.g_person # None

\* C15: a successful batch never replaces a present context field by an
\* absent value; a batch without PM2.5 readings keeps the previous
\* last_nowcast_pm25, and a batch without an accepted ACH estimate keeps the
\* previous ach and ach_source.
C15_ContextNotErased ==
    BatchDone =>
        /\ NothingErased(before_state, after_state)
        /\ smoke_series(op.request.readings) = <<>> =>
              after_state.last_nowcast_pm25 = before_state.last_nowcast_pm25
        /\ ~estimate_accepted(batch_estimate) =>
              /\ after_state.ach = before_state.ach
              /\ after_state.ach_source = before_state.ach_source

\* a batch without PM2.5 and without an ACH estimate, on a device that had
\* a NowCast and an estimated ACH cached
C15_Witness ==
    /\ BatchDone
    /\ smoke_series(op.request.readings) = <<>>
    /\ ~estimate_accepted(batch_estimate)
    /\ before_state.last_nowcast_pm25 # NoneQ
    /\ after_state.last_nowcast_pm25 = before_state.last_nowcast_pm25
    /\ before_state.ach # None
    /\ before_state.ach_source = "decay_estimate"
    /\ after_state.ach = before_state.ach
    /\ after_state.ach_source = "decay_estimate"

\* ------------------------------------------------------------------------
\* a CO2 value of the window is at or below the outdoor baseline
AtOrBelowBaseline(readings, cout_ppm) ==
    \E i \in 1..Len(readings) :
        readings[i].co2 # None /\ readings[i].co2 <= cout_ppm

\* C16: when a CO2 value of a batch is at or below cout_ppm, estimate_ach
\* returns absent and the batch does not replace the cached ACH.
C16_BaselineWindowNoEstimate ==
    (BatchDone /\ AtOrBelowBaseline(op.request.readings, op_resolved.options.cout_ppm)) =>
        /\ batch_estimate = None
        /\ after_state.ach = before_state.ach
        /\ after_state.ach_source = before_state.ach_source

\* ------------------------------------------------------------------------
\* C17: in a batch whose decay estimate exceeds 0.1 the cached ach becomes
\* the estimate, ach_source becomes 'decay_estimate' and the occupancy block
\* reports that ach_used and ach_source, even when the request supplied its
\* own ACH; in every other batch the cached ach and ach_source keep their
\* values and the occupancy block reports the resolved ACH and its origin.
C17_DecayEstimateReplacesAch ==
    BatchDone =>
        IF estimate_accepted(batch_estimate)
        THEN /\ after_state.ach = batch_estimate
             /\ after_state.ach_source = "decay_estimate"
             /\ op.result.occupancy.ach_used = batch_estimate
             /\ op.result.occupancy.ach_source = "decay_estimate"
        ELSE /\ after_state.ach = before_state.ach
             /\ after_state.ach_source = before_state.ach_source
             /\ op.result.occupancy.ach_used = op_resolved.options.ach
             /\ op.result.occupancy.ach_source = op_resolved.ach_origin

\* ------------------------------------------------------------------------
\* the CO2 samples of a batch in time order
co2_window(readings) ==
    sorted_by_timestamp(SelectSeq(_samples_from_request(readings),
                                  LAMBDA s : s.co2 # None))

SameTimestamp(w) == \A i \in 1..Len(w) : w[i].timestamp = w[1].timestamp
Flat(w) == \A i \in 1..Len(w) : w[i].co2 = w[1].co2
Rising(w) == \A i \in 1..(Len(w) - 1) : w[i].co2 <= w[i + 1].co2

\* a window on which the regression is degenerate
Degenerate(w) ==
    Len(w) < MIN_DECAY_POINTS \/ SameTimestamp(w) \/ Flat(w) \/ Rising(w)

\* C18: a batch with usable readings whose CO2 window has fewer than 3
\* samples, one timestamp only, or a flat or rising series succeeds;
\* estimate_ach returns absent for it, the occupancy block reports the
\* resolved ACH with its origin, and the cached ach is not modified.
C18_DegenerateRegression ==
    (/\ op.kind = "batch"
     /\ BaselineRequest_validates(op.request)
     /\ _samples_from_request(op.request.readings) # <<>>
     /\ Degenerate(co2_window(op.request.readings))) =>
        /\ op.ok
        /\ batch_estimate = None
        /\ op.result.occupancy.ach_used = op_resolved.options.ach
        /\ op.result.occupancy.ach_source = op_resolved.ach_origin
        /\ after_state.ach = before_state.ach

\* ------------------------------------------------------------------------
\* the estimate before the clamp, recomputed for the last computation
Zero == QInt(0)

NoteHas(result, part) ==
    \E i \in 1..Len(result.occupancy.note) : result.occupancy.note[i] = part

\* C19: every successful computation, batch or streaming, returns an
\* occupancy n_estimate that is at least 0, whatever the CO2 values (below
\* the outdoor baseline, falling) and the resolved options, on the
\* derivative branch and on the steady-state branch.
C19_EstimateNonNegative ==
    (Computation(op) /\ op.ok) => QGeq(op.result.occupancy.n_estimate, Zero)

\* a single reading below the outdoor baseline (steady-state branch), whose
\* estimate is clamped to 0
C19_Witness ==
    /\ BatchDone
    /\ op.request.readings = <<ReadingG>>
    /\ op_resolved.options.ach > 0
    /\ NoteHas(op.result, "steady_state_estimate")
    /\ op.result.occupancy.n_estimate = Zero

\* ------------------------------------------------------------------------
\* the first reading of the office scenario, by either entry point
OfficeScenario ==
    /\ Computation(op)
    /\ op.ok
    /\ op.device = "office_iaq"
    /\ op.before.state = NoState
    /\ op.before.history = <<>>
    /\ IF op.kind = "batch"
       THEN op.request.readings = <<ReadingS>> /\ op.request.ach = None
       ELSE op.payload = [ReadingS EXCEPT !.device_id = "office_iaq"] /\ op.ov = NoParams

\* ach * V / 3600 * (900 - 420) / 1e6 / g with ach 1.0, V 250, g 4e-6
OfficeEstimate == <<25, 3>>

\* C20 as amended: the first reading of the office scenario yields the
\* steady-state estimate 25/3 (about 8.3 persons) with ACH 1.0 of origin
\* 'default' and a note naming the steady-state fallback.
C20_OfficeSteadyState ==
    OfficeScenario =>
        /\ op.result.occupancy.n_estimate = OfficeEstimate
        /\ op.result.occupancy.ach_used = DEFAULT_DEVICE_ACH
        /\ op.result.occupancy.note =
              <<"ach_source=default", "ma3_co2_smoothing", "steady_state_estimate">>

C20_Witness ==
    /\ OfficeScenario
    /\ op.kind = "batch"
    /\ op.result.occupancy.n_estimate = OfficeEstimate
    /\ NoteHas(op.result, "steady_state_estimate")

\* C20: the first reading of the office scenario (fresh device 'office_iaq',
\* default parameters, co2 900, pm25 10) yields occupancy n_estimate 0 with a
\* note naming the single-point steady-state fallback.
C20_OfficeEstimateZero ==
    OfficeScenario =>
        /\ op.result.occupancy.n_estimate = Zero
        /\ NoteHas(op.result, "steady_state_estimate")

\* ------------------------------------------------------------------------
\* Observations on the applied function (SpecFn)

AqiDone == op.kind = "pm25_aqi" /\ op.nowcast # NoneQ

\* the rows of which the concentration is the lower, or the upper, bound
RowsFrom(c) == {k \in 1..Len(PM25_BREAKPOINTS) : Tenths(PM25_BREAKPOINTS[k][1]) = c}
RowsUpTo(c) == {k \in 1..Len(PM25_BREAKPOINTS) : Tenths(PM25_BREAKPOINTS[k][2]) = c}

\* C21: pm25_aqi is exact at the bounds of every row of the breakpoint table:
\* at c_lo of row k it returns i_lo of row k and at c_hi it returns i_hi; in
\* particular pm25_aqi(12.0) = 50 and pm25_aqi(12.1) = 51.
C21_ExactAtBreakpoints ==
    AqiDone =>
        /\ \A k \in RowsFrom(op.nowcast) : op.aqi = QInt(PM25_BREAKPOINTS[k][3])
        /\ \A k \in RowsUpTo(op.nowcast) : op.aqi = QInt(PM25_BREAKPOINTS[k][4])
        /\ op.nowcast = QInt(12) => op.aqi = QInt(50)
        /\ op.nowcast = <<121, 10>> => op.aqi = QInt(51)

\* the upper bound of the second row, 35.4, gives 100
C21_Witness ==
    /\ AqiDone
    /\ op.nowcast = <<177, 5>>
    /\ RowsUpTo(op.nowcast) = {2}
    /\ op.aqi = QInt(100)

\* C29: pm25_aqi is non-decreasing in the concentration for c >= 0, the
\* concentrations between one row's c_hi and the next row's c_lo included,
\* and the last row's i_hi is returned only above every row's upper bound.
C29_AqiMonotone ==
    AqiDone =>
        /\ \A c \in AqiInputs \ {NoneQ} :
              QLeq(c, op.nowcast) => QLeq(pm25_aqi(c), op.aqi)
        /\ (op.aqi = QInt(PM25_BREAKPOINTS[Len(PM25_BREAKPOINTS)][4])) =>
              QGeq(op.nowcast, Tenths(PM25_BREAKPOINTS[Len(PM25_BREAKPOINTS)][2]))

\* ------------------------------------------------------------------------
NowcastDone == op.kind = "compute_nowcast_pm25"

\* the values of a series that are not absent
present_values(values) == SelectSeq(values, LAMBDA v : v # None)

ConstantSeries(values) ==
    /\ values # <<>>
    /\ \A i \in 1..Len(values) : values[i] = values[1]

IaqDone == op.kind = "build_iaq" /\ op.iaq.raised = ""

InRange(x) == QGeq(x, QInt(0)) /\ QLeq(x, QInt(100))

ComponentRisks(iaq) == {iaq.risk_co2, iaq.risk_pm25, iaq.risk_tvoc, iaq.risk_comfort}

NoPm25(readings) == \A i \in 1..Len(readings) : readings[i].pm25 = None

\* C24: a successful batch none of whose readings carries PM2.5 reports
\* smoke_present false with reason 'insufficient' and raw_probability 0,
\* and leaves the device's stored SmokeState exactly as it was.
C24_NoPm25Insufficient ==
    BatchDone /\ NoPm25(op.request.readings) =>
        /\ op.result.smoke.smoke_present = FALSE
        /\ op.result.smoke.reason = "insufficient"
        /\ op.result.smoke.raw_probability = QInt(0)
        /\ after_state.smoke = before_state.smoke

\* a batch without PM2.5 that found the alarm active and left it active
C24_Witness ==
    /\ BatchDone
    /\ NoPm25(op.request.readings)
    /\ before_state.smoke.active
    /\ after_state.smoke = before_state.smoke
    /\ op.result.smoke.reason = "insufficient"
    /\ ~op.result.smoke.smoke_present

\* ------------------------------------------------------------------------
\* the points of a series at or before its latest timestamp - 10 minutes
AtOrBeforeTenMinutes(series) ==
    {i \in 1..Len(series) :
        series[i].timestamp <= series[Len(series)].timestamp - TEN_MINUTES}

\* the reference point of the rise: the most recent of them, else the earliest
ReferencePoint(series) ==
    IF AtOrBeforeTenMinutes(series) = {} THEN 1 ELSE Max(AtOrBeforeTenMinutes(series))

RiseOver(series) ==
    QSub(series[Len(series)].value, series[ReferencePoint(series)].value)

\* the smoke result reports the state a transition produced
TransitionReported(info, updated) ==
    info.smoke_present = updated.active /\ info.reason = updated.last_reason

\* C25: in every successful computation with PM2.5 the rise assess_smoke
\* uses is the latest NowCast minus the NowCast of the most recent point at
\* or before latest_ts - 10 minutes, or minus the earliest point's when no
\* point is that old; the reported smoke result, and the state a batch
\* stores, are the transition under that rise.
C25_RiseReference ==
    (BatchDone \/ StreamDone) /\ smoke_series(evaluated_readings) # <<>> =>
        /\ smoke_previous(smoke_series(evaluated_readings))
              = smoke_series(evaluated_readings)[
                    ReferencePoint(smoke_series(evaluated_readings))].value
        /\ TransitionReported(op.result.smoke,
                              smoke_transition(before_state.smoke,
                                  latest_nowcast(smoke_series(evaluated_readings)),
                                  RiseOver(smoke_series(evaluated_readings))))
        /\ BatchDone =>
              after_state.smoke
                  = smoke_transition(before_state.smoke,
                                     latest_nowcast(smoke_series(evaluated_readings)),
                                     RiseOver(smoke_series(evaluated_readings)))

\* a series whose reference point is neither its earliest point nor the
\* point just before the latest, and whose value differs from the earliest
C25_Witness ==
    /\ BatchDone \/ StreamDone
    /\ Len(smoke_series(evaluated_readings)) >= 3
    /\ AtOrBeforeTenMinutes(smoke_series(evaluated_readings)) # {}
    /\ ReferencePoint(smoke_series(evaluated_readings)) > 1
    /\ smoke_series(evaluated_readings)[
           ReferencePoint(smoke_series(evaluated_readings))].value
          # smoke_series(evaluated_readings)[1].value
    /\ op.result.smoke.reason \in {"below_threshold", "hysteresis_hold", "rapid_rise"}

\* ------------------------------------------------------------------------
\* a point before the latest that, had the series ended there, met the trigger
EarlierTrigger(series) ==
    \E k \in 1..(Len(series) - 1) : TriggerSeen(SubSeq(series, 1, k))

\* the points of the series at or below the clear threshold
LowPoints(series) ==
    {k \in 1..Len(series) : QLeq(series[k].value, QInt(SMOKE_TRIGGER - SMOKE_CLEAR_DELTA))}

\* the batch holds exactly the readings the previous batch left in history
Resubmitted == op.before.history = entries_of(op.request.readings)

\* C26: every successful batch with PM2.5 stores the one transition of the
\* state machine from the stored state on the latest NowCast point: without
\* a trigger at the latest point an inactive state stays inactive whatever
\* the earlier points were, an active state's count advances by at most one
\* however many points are low, and a resubmitted batch is evaluated again
\* from the state the first submission stored.
C26_OneTransitionOnLatest ==
    BatchDone /\ smoke_series(op.request.readings) # <<>> =>
        /\ after_state.smoke
              = smoke_transition(before_state.smoke,
                                 latest_nowcast(smoke_series(op.request.readings)),
                                 QSub(latest_nowcast(smoke_series(op.request.readings)),
                                      smoke_previous(smoke_series(op.request.readings))))
        /\ ~before_state.smoke.active /\ ~TriggerSeen(smoke_series(op.request.readings))
              => after_state.smoke = SmokeState(FALSE, 0, "below_threshold")
        /\ before_state.smoke.active /\ after_state.smoke.active
              => after_state.smoke.consecutive_below
                    \in {0, before_state.smoke.consecutive_below + 1}
        /\ before_state.smoke = SmokeState(TRUE, 0, "rapid_rise")
              /\ ~TriggerSeen(smoke_series(op.request.readings))
              /\ BelowClear(smoke_series(op.request.readings))
              => after_state.smoke = SmokeState(TRUE, 1, "hysteresis_hold")
        /\ Resubmitted /\ before_state.smoke = SmokeState(TRUE, 1, "hysteresis_hold")
              /\ BelowClear(smoke_series(op.request.readings))
              /\ ~TriggerSeen(smoke_series(op.request.readings))
              => after_state.smoke = SmokeState(FALSE, 0, "clearing")

\* a batch on an inactive state with an earlier point that met the trigger
\* and a latest point that does not: the state stays inactive
C26_Witness ==
    /\ BatchDone
    /\ Len(smoke_series(op.request.readings)) >= 3
    /\ EarlierTrigger(smoke_series(op.request.readings))
    /\ ~TriggerSeen(smoke_series(op.request.readings))
    /\ ~before_state.smoke.active
    /\ after_state.smoke = SmokeState(FALSE, 0, "below_threshold")

\* a resubmitted batch of two low points: the first submission advanced the
\* count of an active state to 1, the second clears it
C26_ResubmissionClears ==
    /\ BatchDone
    /\ Resubmitted
    /\ Cardinality(LowPoints(smoke_series(op.request.readings))) >= 2
    /\ before_state.smoke = SmokeState(TRUE, 1, "hysteresis_hold")
    /\ after_state.smoke = SmokeState(FALSE, 0, "clearing")

\* ------------------------------------------------------------------------
ActiveReasons == {"rapid_rise", "hysteresis_hold"}
InactiveReasons == {"clearing", "below_threshold", "normal"}

WellFormed(smoke) ==
    /\ 0 <= smoke.consecutive_below
    /\ smoke.consecutive_below < SMOKE_CONSECUTIVE
    /\ ~smoke.active => smoke.consecutive_below = 0
    /\ smoke.last_reason \in ActiveReasons => smoke.active
    /\ smoke.last_reason \in InactiveReasons => ~smoke.active
    /\ smoke.last_reason \in ActiveReasons \cup InactiveReasons

\* C27: the stored SmokeState of every device has
\* 0 <= consecutive_below < SMOKE_CONSECUTIVE, consecutive_below = 0 when
\* inactive, last_reason 'rapid_rise' or 'hysteresis_hold' only when active
\* and 'clearing', 'below_threshold' or 'normal' only when inactive.
C27_SmokeStateWellFormed ==
    \A d \in Devices : device_state[d] # NoState => WellFormed(device_state[d].smoke)

\* a batch brought an active state to the last count before clearing
C27_Witness ==
    /\ BatchDone
    /\ before_state.smoke.active
    /\ after_state.smoke
          = SmokeState(TRUE, SMOKE_CONSECUTIVE - 1, "hysteresis_hold")
    /\ WellFormed(after_state.smoke)

\* ------------------------------------------------------------------------
\* the cached ACH of a DeviceState and its source agree
AchCacheConsistent(state) ==
    /\ state.ach = None <=> state.ach_source = "default"
    /\ state.ach # None =>
          /\ state.ach > ACH_MIN_ESTIMATE
          /\ state.ach_source = "decay_estimate"

HasCo2(readings) == \E i \in 1..Len(readings) : readings[i].co2 # None

\* C28: the cached ach of every device is absent exactly when ach_source is
\* 'default', and a present one is above 0.1 with ach_source
\* 'decay_estimate'; a batch changes the cached ach only to its own accepted
\* decay estimate, so an ACH supplied in the request never enters the cache;
\* a streaming computation leaves the cache alone and uses the resolved ACH
\* without estimating one.
C28_CachedAchIsDecayEstimate ==
    /\ \A d \in Devices : device_state[d] # NoState => AchCacheConsistent(device_state[d])
    /\ BatchDone /\ after_state.ach # before_state.ach =>
          /\ estimate_accepted(batch_estimate)
          /\ after_state.ach = batch_estimate
    /\ BatchDone /\ ~estimate_accepted(batch_estimate) =>
          /\ after_state.ach = before_state.ach
          /\ after_state.ach_source = before_state.ach_source
    /\ StreamDone =>
          /\ after_state.ach = before_state.ach
          /\ after_state.ach_source = before_state.ach_source
          /\ ~NoteHas(op.result, "ach_estimated_from_decay")
          /\ op.result.occupancy.ach_source = op_resolved.ach_origin
          /\ HasCo2(evaluated_readings) =>
                op.result.occupancy.ach_used = op_resolved.options.ach

\* a batch that supplied its own ACH and had no accepted estimate, on a
\* device whose cache holds an earlier estimate: the cache keeps the estimate
C28_Witness ==
    /\ BatchDone
    /\ op.request.ach # None
    /\ ~estimate_accepted(batch_estimate)
    /\ before_state.ach # None
    /\ before_state.ach # op.request.ach
    /\ after_state.ach = before_state.ach
    /\ after_state.ach_source = "decay_estimate"
    /\ op.result.occupancy.ach_used = op.request.ach

\* a streaming computation over a history whose decay estimate differs from
\* the cached one: the cache and the ACH used are the cached estimate
C28_StreamKeepsCache ==
    /\ StreamDone
    /\ before_state.ach # None
    /\ estimate_accepted(decay_estimate(evaluated_readings, op_resolved.options.cout_ppm))
    /\ decay_estimate(evaluated_readings, op_resolved.options.cout_ppm) # before_state.ach
    /\ after_state.ach = before_state.ach
    /\ op.result.occupancy.ach_used = before_state.ach

\* ------------------------------------------------------------------------
\* C30: SMOKE_MIN_RISE is positive, and a successful computation, batch or
\* streaming, whose NowCast series has exactly one point and whose stored
\* smoke state is inactive has rise 0, does not meet the trigger whatever
\* the value, reports smoke_present false with reason 'below_threshold', and
\* leaves the stored state inactive.
C30_SinglePointNeverActivates ==
    /\ SMOKE_MIN_RISE > 0
    /\ (BatchDone \/ StreamDone)
          /\ Len(smoke_series(evaluated_readings)) = 1
          /\ ~before_state.smoke.active
          => /\ QSub(latest_nowcast(smoke_series(evaluated_readings)),
                     smoke_previous(smoke_series(evaluated_readings))) = QInt(0)
             /\ ~trigger_met(latest_nowcast(smoke_series(evaluated_readings)), QInt(0))
             /\ op.result.smoke.smoke_present = FALSE
             /\ op.result.smoke.reason = "below_threshold"
             /\ ~after_state.smoke.active
             /\ BatchDone => after_state.smoke = SmokeState(FALSE, 0, "below_threshold")

\* a batch with the single PM2.5 point 80, above the trigger, on an
\* inactive state: the state stays inactive
C30_Witness ==
    /\ BatchDone
    /\ Len(smoke_series(op.request.readings)) = 1
    /\ QGeq(latest_nowcast(smoke_series(op.request.readings)), QInt(SMOKE_TRIGGER))
    /\ ~before_state.smoke.active
    /\ after_state.smoke = SmokeState(FALSE, 0, "below_threshold")
    /\ op.result.smoke.raw_probability = QInt(1)

====
